---- MODULE Spec2Model ----
(***************************************************************************)
(* Order lifecycle and payment reconciliation of RecursiveDine-Backend.    *)
(*                                                                         *)
(* The database is the shared state: the menu_items, orders (with their    *)
(* order_items) and payments tables.  Every HTTP request is served by its  *)
(* own goroutine; a request handler is a sequence of repository calls,     *)
(* each of which is one statement (or one implicit transaction) against    *)
(* the database.  No handler opens a transaction of its own, so the        *)
(* repository calls of concurrent requests interleave freely.  Each        *)
(* repository write can fail (connection lost, constraint violated).       *)
(*                                                                         *)
(* Money is counted in hundredths of the currency unit.                    *)
(***************************************************************************)
EXTENDS Integers, Sequences, FiniteSets, TLC

VARIABLES
    menu,       \* menu_items table: id -> [price, available]
    orders,     \* orders table: sequence indexed by primary key
    payments,   \* payments table: sequence indexed by primary key
    call,       \* per request goroutine: the running handler, its position and locals
    ncalls,     \* number of requests started so far
    clients,    \* KitchenService.clients: the connections subscribed
    mutex,      \* KitchenService.mutex: the goroutines holding it
    dispatch,   \* the handleMessages goroutine: position, message, clients visited
    conns       \* per websocket connection: its HandleWebSocket goroutine, the
                \* message AddClient is about to write, the messages written
                \* to it and whether it was closed

vars == <<menu, orders, payments, call, ncalls, clients, mutex, dispatch, conns>>

(* The state of the KitchenService and of its connections. *)
kitchen == <<clients, mutex, dispatch, conns>>

---------------------------------------------------------------------------
(* Bounds *)

MaxCalls == 4       \* requests started in one behaviour
MaxOrders == 1      \* rows in the orders table
MaxShiftPayments == 2   \* rows in the payments table at a reconciliation

(* Two request goroutines at a time. *)
Procs == {1, 2}

(* Catalog item ids. *)
MenuIDs == {1, 2}

(* Request bodies for the line items of an order. *)
ItemLists ==
    { << [menuItemID |-> 1, quantity |-> 1] >>,
      << [menuItemID |-> 1, quantity |-> 2], [menuItemID |-> 2, quantity |-> 1] >> }

(* Request bodies for the creation of an order: the same, one naming an
   item id the catalog does not hold, and one with two lines for item 1. *)
CreateItemLists ==
    ItemLists \cup
    { << [menuItemID |-> 3, quantity |-> 1] >>,
      << [menuItemID |-> 1, quantity |-> 1], [menuItemID |-> 1, quantity |-> 2] >> }

(* Request bodies of PUT /admin/orders/{id}/items, bound to []OrderItem with
   no validation: the same, and one with a negative quantity. *)
UpdateItemLists == ItemLists \cup { << [menuItemID |-> 1, quantity |-> -1] >> }

(* Request bodies of PUT /admin/menu/items/{id}: a new price for item 1, and
   item 2 taken off the menu. *)
MenuUpdates ==
    { [id |-> 1, price |-> 1200, available |-> TRUE],
      [id |-> 2, price |-> 500, available |-> FALSE] }

(* Websocket connections, the keys of KitchenService.clients. *)
Handles == {1, 2}

(* Order ids a request may name. *)
OrderIDs == 1 .. MaxOrders

(* Status strings a client may send to the admin/staff status endpoint. *)
AdminStatusInputs ==
    {"pending", "confirmed", "preparing", "ready", "served", "delivered", "cancelled"}

(* Status strings a client may send to the payment status endpoint. *)
PaymentStatusInputs ==
    {"pending", "completed", "failed", "refunded", "cancelled", "paid"}

(* Verification statuses a payment provider callback may report. *)
ReportedStatuses == {"success", "completed", "failed", "pending"}

---------------------------------------------------------------------------
(* Enumerations of models.go *)

OrderStatusPending == "pending"
OrderStatusConfirmed == "confirmed"
OrderStatusPreparing == "preparing"
OrderStatusReady == "ready"
OrderStatusServed == "served"
OrderStatusCancelled == "cancelled"

OrderStatuses ==
    { OrderStatusPending, OrderStatusConfirmed, OrderStatusPreparing,
      OrderStatusReady, OrderStatusServed, OrderStatusCancelled }

PaymentStatusPending == "pending"
PaymentStatusCompleted == "completed"
PaymentStatusFailed == "failed"
PaymentStatusRefunded == "refunded"
PaymentStatusCancelled == "cancelled"

PaymentMethodQRIS == "qris"
PaymentMethodCash == "cash"

(* const vatRate = 0.10, as a percentage *)
vatRate == 10

---------------------------------------------------------------------------
(* Rows and locals *)

NoOrder ==
    [status |-> "", deleted |-> FALSE, subtotal |-> 0, vat |-> 0, total |-> 0,
     items |-> << >>]

NoPayment ==
    [orderID |-> 0, method |-> "", status |-> "", amount |-> 0, txn |-> "",
     ext |-> ""]

(* A message written to a kitchen connection: the "initial_orders" snapshot
   with the ids of its orders, or a KitchenUpdate with the order's id and
   status. *)
NoMessage == [type |-> "", orderID |-> 0, status |-> "", orders |-> {}]

(* The body of POST /payments/verify: transaction id, amount and status as
   the caller reports them. *)
NoVerification == [txn |-> "", amount |-> 0, status |-> ""]

(* The reconciliation record of ReconcileCashPayments. *)
NoReconciliation ==
    [cashierID |-> 0, shiftStart |-> 0, shiftEnd |-> 0, actualAmount |-> 0,
     calculatedAmount |-> 0, difference |-> 0, paymentCount |-> 0]

(* Locals of a handler; rows is the RowsAffected of its order status UPDATE,
   -1 while it has issued none; req is the PaymentVerificationRequest of a
   VerifyPayment; reconciliation is the record ReconcileCashPayments
   returns. *)
Idle ==
    [op |-> "idle", pc |-> "idle", oid |-> 0, status |-> "", order |-> NoOrder,
     payment |-> NoPayment, pid |-> 0, amount |-> 0, items |-> << >>,
     rows |-> -1, res |-> "", req |-> NoVerification,
     reconciliation |-> NoReconciliation]

RECURSIVE SumTotalPrice(_)
SumTotalPrice(lines) ==
    IF lines = << >> THEN 0
    ELSE Head(lines).totalPrice + SumTotalPrice(Tail(lines))

(* One order line priced from the catalog as it is now. *)
PricedItem(item) ==
    [menuItemID |-> item.menuItemID,
     quantity   |-> item.quantity,
     unitPrice  |-> menu[item.menuItemID].price,
     totalPrice |-> menu[item.menuItemID].price * item.quantity]

PricedItems(items) == [i \in DOMAIN items |-> PricedItem(items[i])]

(* OrderRepository.GetByID: First(&order, id) under the soft-delete scope. *)
OrderFound(id) == id \in DOMAIN orders /\ ~orders[id].deleted

(* OrderRepository.UpdateStatus: UPDATE orders SET status WHERE id = ? (and
   deleted_at IS NULL); matching no row is not an error. *)
UpdateStatusRows(id) == IF OrderFound(id) THEN 1 ELSE 0

UpdateStatus(id, status) ==
    IF OrderFound(id) THEN [orders EXCEPT ![id].status = status] ELSE orders

(* GetMenuItemsByIDs without the is_available condition.
   CreateRejectsUnavailable fails with it. *)
GetMenuItemsByIDsAnyAvailability(ids) == { id \in MenuIDs : id \in ids }

(* MenuRepository.GetMenuItemsByIDs: the available rows whose id is listed. *)
GetMenuItemsByIDs(ids) == { id \in MenuIDs : id \in ids /\ menu[id].available }

Started(op) == [Idle EXCEPT !.op = op, !.pc = "start"]

(* The handler returns: its result ("ok" or the error text) stays in the
   goroutine until the response is written, together with the ids, the
   statuses and the line items the request was about. *)
Finish(p, c, res) ==
    call' = [call EXCEPT ![p] =
                [Idle EXCEPT !.op = c.op, !.pc = "done", !.res = res,
                             !.oid = c.oid, !.pid = c.pid, !.status = c.status,
                             !.order = [NoOrder EXCEPT !.status = c.order.status],
                             !.payment = [NoPayment EXCEPT !.status = c.payment.status],
                             !.items = c.items,
                             !.rows = c.rows,
                             !.req = c.req,
                             !.reconciliation = c.reconciliation]]

(* The handler goes on to its next repository call. *)
Continue(p, c) ==
    call' = [call EXCEPT ![p] = c]

Busy(p) == call[p] # Idle

(* Writing the response touches no table, so it is taken to happen before
   any other goroutine's next repository call. *)
Quiet == \A q \in Procs : call[q].pc # "done"

At(p, op, pc) ==
    /\ Quiet
    /\ call[p].op = op
    /\ call[p].pc = pc

(* A request starts on a free goroutine slot; the slots are interchangeable,
   so the second one is taken only while the first is busy. *)
CanStart(p) ==
    /\ Quiet
    /\ ~Busy(p)
    /\ ncalls < MaxCalls
    /\ p = 2 => Busy(1)

---------------------------------------------------------------------------
(* The status transition table *)

validTransitions ==
    [s \in OrderStatuses |->
        CASE s = OrderStatusPending   -> {OrderStatusConfirmed, OrderStatusCancelled}
          [] s = OrderStatusConfirmed -> {OrderStatusPreparing, OrderStatusCancelled}
          [] s = OrderStatusPreparing -> {OrderStatusReady}
          [] s = OrderStatusReady     -> {OrderStatusServed}
          [] s = OrderStatusServed    -> {}
          [] s = OrderStatusCancelled -> {}]

(* validateStatusTransition without the table lookup: every target is accepted
   from a known current status.  UpdateOrderStatusValidates fails with it. *)
AnyTransitionAllowed(currentStatus, newStatus) ==
    IF currentStatus \notin DOMAIN validTransitions
    THEN "invalid current status"
    ELSE ""

(* OrderService.validateStatusTransition: "" for nil, else the error text. *)
validateStatusTransition(currentStatus, newStatus) ==
    IF currentStatus \notin DOMAIN validTransitions
    THEN "invalid current status"
    ELSE IF newStatus \in validTransitions[currentStatus]
         THEN ""
         ELSE "invalid status transition from " \o currentStatus \o " to " \o newStatus

---------------------------------------------------------------------------
(* MenuService.UpdateMenuItem -> MenuRepository.UpdateMenuItem, behind
   PUT /admin/menu/items/{id}: Save(item) writes the menu_items row, and no
   other table. *)

(* UpdateMenuItem that also writes the new price into the lines of pending
   orders.  PricesFrozen fails with it. *)
UpdateMenuItemRepricing(p, item, dbOK) ==
    /\ CanStart(p)
    /\ ncalls' = ncalls + 1
    /\ IF dbOK
       THEN /\ menu' = [menu EXCEPT ![item.id] =
                           [price |-> item.price, available |-> item.available]]
            /\ orders' = [o \in DOMAIN orders |->
                  IF orders[o].status # OrderStatusPending THEN orders[o]
                  ELSE [orders[o] EXCEPT !.items =
                         [i \in DOMAIN orders[o].items |->
                            IF orders[o].items[i].menuItemID # item.id
                            THEN orders[o].items[i]
                            ELSE [orders[o].items[i] EXCEPT
                                    !.unitPrice = item.price,
                                    !.totalPrice = item.price * orders[o].items[i].quantity]]]]
            /\ Finish(p, Started("UpdateMenuItem"), "ok")
       ELSE /\ Finish(p, Started("UpdateMenuItem"), "db error")
            /\ UNCHANGED <<menu, orders>>
    /\ UNCHANGED payments
    /\ UNCHANGED kitchen

UpdateMenuItem(p, item, dbOK) ==
    /\ CanStart(p)
    /\ ncalls' = ncalls + 1
    /\ IF dbOK
       THEN /\ menu' = [menu EXCEPT ![item.id] =
                           [price |-> item.price, available |-> item.available]]
            /\ Finish(p, Started("UpdateMenuItem"), "ok")
       ELSE /\ Finish(p, Started("UpdateMenuItem"), "db error")
            /\ UNCHANGED menu
    /\ UNCHANGED <<orders, payments>>
    /\ UNCHANGED kitchen

---------------------------------------------------------------------------
(* OrderService.CreateOrder *)

CreateOrder(p, items, lookupOK, dbOK) ==
    /\ CanStart(p)
    /\ Len(orders) < MaxOrders
    /\ ncalls' = ncalls + 1
    /\ LET ids   == { items[i].menuItemID : i \in DOMAIN items }
           found == GetMenuItemsByIDs(ids)
           lines == PricedItems(items)
           subtotal == SumTotalPrice(lines)
           vatAmount == (subtotal * vatRate) \div 100
           order == [status |-> OrderStatusPending, deleted |-> FALSE,
                     subtotal |-> subtotal, vat |-> vatAmount,
                     total |-> subtotal + vatAmount, items |-> lines]
           c == [Started("CreateOrder") EXCEPT !.items = items]
       IN  IF ~lookupOK
           THEN /\ Finish(p, c, "failed to fetch menu items")
                /\ UNCHANGED orders
           ELSE IF Cardinality(found) # Len(items)
           THEN /\ Finish(p, c, "some menu items are not available")
                /\ UNCHANGED orders
           ELSE IF ~dbOK
           THEN /\ Finish(p, c, "failed to create order")
                /\ UNCHANGED orders
           ELSE /\ orders' = Append(orders, order)
                /\ Finish(p, [c EXCEPT !.oid = Len(orders) + 1], "ok")
    /\ UNCHANGED <<menu, payments>>
    /\ UNCHANGED kitchen

---------------------------------------------------------------------------
(* OrderService.CreateCashierOrder: the order row is created first, then
   the order items one by one, each in a statement of its own; `written` is
   the number of item rows created before a write failed. *)

CreateCashierOrder(p, items, lookupOK, dbOK, written) ==
    /\ CanStart(p)
    /\ Len(orders) < MaxOrders
    /\ written \in 0 .. Len(items)
    /\ ncalls' = ncalls + 1
    /\ LET ids   == { items[i].menuItemID : i \in DOMAIN items }
           found == GetMenuItemsByIDs(ids)
           lines == PricedItems(items)
           subtotal == SumTotalPrice(lines)
           vatAmount == (subtotal * vatRate) \div 100
           createdOrder == [status |-> OrderStatusPending, deleted |-> FALSE,
                            subtotal |-> subtotal, vat |-> vatAmount,
                            total |-> subtotal + vatAmount,
                            items |-> SubSeq(lines, 1, written)]
           c == [Started("CreateCashierOrder") EXCEPT !.items = items]
       IN  IF ~lookupOK
           THEN /\ Finish(p, c, "failed to fetch menu items")
                /\ UNCHANGED orders
           ELSE IF Cardinality(found) # Len(items)
           THEN /\ Finish(p, c, "some menu items are not available")
                /\ UNCHANGED orders
           ELSE IF ~dbOK
           THEN /\ Finish(p, c, "failed to create order")
                /\ UNCHANGED orders
           ELSE /\ orders' = Append(orders, createdOrder)
                /\ Finish(p, [c EXCEPT !.oid = Len(orders) + 1],
                          IF written = Len(items) THEN "ok"
                          ELSE "failed to create order items")
    /\ UNCHANGED <<menu, payments>>
    /\ UNCHANGED kitchen

---------------------------------------------------------------------------
(* OrderService.UpdateOrderStatus, behind PATCH /orders/{id}/status *)

UpdateOrderStatus_Get(p, orderID, status) ==
    /\ CanStart(p)
    /\ ncalls' = ncalls + 1
    /\ LET c == [Started("UpdateOrderStatus") EXCEPT !.oid = orderID, !.status = status]
       IN  IF ~OrderFound(orderID)
           THEN Finish(p, c, "order not found")
           ELSE LET err == validateStatusTransition(orders[orderID].status, status)
                    c2  == [c EXCEPT !.order = orders[orderID]]
                IN  IF err # ""
                    THEN Finish(p, c, err)
                    ELSE Continue(p, [c2 EXCEPT !.pc = "UpdateStatus"])
    /\ UNCHANGED <<menu, orders, payments>>
    /\ UNCHANGED kitchen

UpdateOrderStatus_UpdateStatus(p, dbOK) ==
    /\ At(p, "UpdateOrderStatus", "UpdateStatus")
    /\ IF dbOK
       THEN /\ orders' = UpdateStatus(call[p].oid, call[p].status)
            /\ Finish(p, [call[p] EXCEPT !.rows = UpdateStatusRows(call[p].oid)], "ok")
       ELSE /\ Finish(p, call[p], "db error")
            /\ UNCHANGED orders
    /\ UNCHANGED <<menu, payments, ncalls>>
    /\ UNCHANGED kitchen

---------------------------------------------------------------------------
(* OrderManagementController.UpdateOrderStatus and
   OrderService.UpdateOrderStatusAdmin, behind PATCH /admin/orders/{id}/status
   and PATCH /staff/orders/{id}/status *)

AdminValidStatuses ==
    {"pending", "confirmed", "preparing", "ready", "delivered", "cancelled"}

UpdateOrderStatusAdmin(p, id, status, dbOK) ==
    /\ CanStart(p)
    /\ ncalls' = ncalls + 1
    /\ LET c == [Started("UpdateOrderStatusAdmin") EXCEPT !.oid = id, !.status = status]
       IN  IF status \notin AdminValidStatuses
           THEN /\ Finish(p, c, "Invalid order status")
                /\ UNCHANGED orders
           ELSE IF status \notin OrderStatuses
           THEN /\ Finish(p, c, "invalid order status")
                /\ UNCHANGED orders
           ELSE IF ~dbOK
           THEN /\ Finish(p, c, "db error")
                /\ UNCHANGED orders
           ELSE /\ orders' = UpdateStatus(id, status)
                /\ Finish(p, [c EXCEPT !.rows = UpdateStatusRows(id)],
                          IF OrderFound(id) THEN "ok" ELSE "order not found")
    /\ UNCHANGED <<menu, payments>>
    /\ UNCHANGED kitchen

---------------------------------------------------------------------------
(* OrderService.DeleteOrder -> OrderRepository.SoftDelete *)

DeleteOrder(p, id, dbOK) ==
    /\ CanStart(p)
    /\ ncalls' = ncalls + 1
    /\ IF dbOK
       THEN /\ orders' = IF OrderFound(id) THEN [orders EXCEPT ![id].deleted = TRUE] ELSE orders
            /\ Finish(p, [Started("DeleteOrder") EXCEPT !.oid = id], "ok")
       ELSE /\ Finish(p, [Started("DeleteOrder") EXCEPT !.oid = id], "db error")
            /\ UNCHANGED orders
    /\ UNCHANGED <<menu, payments>>
    /\ UNCHANGED kitchen

---------------------------------------------------------------------------
(* OrderService.UpdateOrderItems, behind PUT /admin/orders/{id}/items *)

(* UpdateOrderItems_Get without the check of the order's status.
   UpdateOrderItemsOnlyPending fails with it. *)
UpdateOrderItems_GetAnyStatus(p, orderID, items) ==
    /\ CanStart(p)
    /\ ncalls' = ncalls + 1
    /\ LET c == [Started("UpdateOrderItems") EXCEPT !.oid = orderID]
       IN  IF ~OrderFound(orderID)
           THEN Finish(p, c, "order not found")
           ELSE Continue(p,
                    [c EXCEPT !.pc = "UpdateOrderItems",
                              !.order = orders[orderID],
                              !.items = PricedItems(items),
                              !.amount = SumTotalPrice(PricedItems(items))])
    /\ UNCHANGED <<menu, orders, payments>>
    /\ UNCHANGED kitchen

UpdateOrderItems_Get(p, orderID, items) ==
    /\ CanStart(p)
    /\ ncalls' = ncalls + 1
    /\ LET c == [Started("UpdateOrderItems") EXCEPT !.oid = orderID]
       IN  IF ~OrderFound(orderID)
           THEN Finish(p, c, "order not found")
           ELSE IF orders[orderID].status # OrderStatusPending
           THEN Finish(p, c, "can only update items for pending orders")
           ELSE Continue(p,
                    [c EXCEPT !.pc = "UpdateOrderItems",
                              !.order = orders[orderID],
                              !.items = PricedItems(items),
                              !.amount = SumTotalPrice(PricedItems(items))])
    /\ UNCHANGED <<menu, orders, payments>>
    /\ UNCHANGED kitchen

(* OrderRepository.UpdateOrderItems: DELETE of the old rows, then one INSERT
   per new row, with no transaction around them. *)
UpdateOrderItems_Replace(p, dbOK, written) ==
    /\ At(p, "UpdateOrderItems", "UpdateOrderItems")
    /\ written \in 0 .. Len(call[p].items)
    /\ LET id == call[p].oid
       IN  IF ~dbOK
           THEN /\ Finish(p, call[p], "db error")
                /\ UNCHANGED orders
           ELSE IF written < Len(call[p].items)
           THEN /\ orders' = [orders EXCEPT ![id].items = SubSeq(call[p].items, 1, written)]
                /\ Finish(p, call[p], "db error")
           ELSE /\ orders' = [orders EXCEPT ![id].items = call[p].items]
                /\ Continue(p, [call[p] EXCEPT !.pc = "UpdateOrder"])
    /\ UNCHANGED <<menu, payments, ncalls>>
    /\ UNCHANGED kitchen

(* order.TotalAmount = total; OrderRepository.UpdateOrder: Save(order) writes
   every column of the order row from the handler's copy. *)
UpdateOrderItems_UpdateOrder(p, dbOK) ==
    /\ At(p, "UpdateOrderItems", "UpdateOrder")
    /\ LET id == call[p].oid
           order == [call[p].order EXCEPT !.total = call[p].amount]
       IN  IF dbOK
           THEN /\ orders' = [orders EXCEPT ![id] =
                        [order EXCEPT !.items = orders[id].items]]
                /\ Finish(p, call[p], "ok")
           ELSE /\ Finish(p, call[p], "db error")
                /\ UNCHANGED orders
    /\ UNCHANGED <<menu, payments, ncalls>>
    /\ UNCHANGED kitchen

---------------------------------------------------------------------------
(* payments table *)

(* PaymentRepository.GetByOrderID / GetByTransactionID: First() returns the
   matching row with the lowest primary key; 0 stands for "payment not found". *)
GetByOrderID(orderID) ==
    LET m == { i \in DOMAIN payments : payments[i].orderID = orderID }
    IN  IF m = {} THEN 0 ELSE CHOOSE i \in m : \A j \in m : i <= j

GetByTransactionID(transactionID) ==
    LET m == { i \in DOMAIN payments : payments[i].txn = transactionID }
    IN  IF m = {} THEN 0 ELSE CHOOSE i \in m : \A j \in m : i <= j

(* The payments table without the unique index on order_id: every INSERT is
   accepted.  OnePaymentPerOrder fails with it. *)
NoUniqueIndex(orderID) == TRUE

(* Payment.OrderID carries gorm:"uniqueIndex" (order_id INTEGER UNIQUE in the
   schema): an INSERT for an order that already has a payment row fails. *)
UniqueOrderID(orderID) == \A i \in DOMAIN payments : payments[i].orderID # orderID

(* PaymentService.generateTransactionID: "RD", the timestamp and 8 random
   bytes, taken as never colliding with an id already stored. *)
generateTransactionID == "RD" \o ToString(Len(payments) + 1)

---------------------------------------------------------------------------
(* PaymentService.InitiateQRISPayment, behind POST /payments/qris *)

InitiateQRISPayment_GetOrder(p, orderID) ==
    /\ CanStart(p)
    /\ ncalls' = ncalls + 1
    /\ LET c == [Started("InitiateQRISPayment") EXCEPT !.oid = orderID]
       IN  IF ~OrderFound(orderID)
           THEN Finish(p, c, "order not found")
           ELSE IF orders[orderID].status # OrderStatusPending
           THEN Finish(p, c, "order is not pending payment")
           ELSE Continue(p,
                    [c EXCEPT !.pc = "GetByOrderID", !.order = orders[orderID]])
    /\ UNCHANGED <<menu, orders, payments>>
    /\ UNCHANGED kitchen

(* InitiateQRISPayment_GetByOrderID without the check of the existing
   payment's status.  InitiateRefusesPaidOrNotPending fails with it. *)
InitiateQRISPayment_GetByOrderIDUnchecked(p) ==
    /\ At(p, "InitiateQRISPayment", "GetByOrderID")
    /\ Continue(p, [call[p] EXCEPT !.pc = "Create"])
    /\ UNCHANGED <<menu, orders, payments, ncalls>>
    /\ UNCHANGED kitchen

InitiateQRISPayment_GetByOrderID(p) ==
    /\ At(p, "InitiateQRISPayment", "GetByOrderID")
    /\ LET existing == GetByOrderID(call[p].oid)
       IN  IF existing # 0 /\ payments[existing].status = PaymentStatusCompleted
           THEN Finish(p, call[p], "order already paid")
           ELSE Continue(p, [call[p] EXCEPT !.pc = "Create"])
    /\ UNCHANGED <<menu, orders, payments, ncalls>>
    /\ UNCHANGED kitchen

(* InitiateQRISPayment_Create charging the order's subtotal, without the
   tax.  InitiateCreatesPendingPayment fails with it. *)
InitiateQRISPayment_CreateSubtotal(p, dbOK) ==
    /\ At(p, "InitiateQRISPayment", "Create")
    /\ LET payment == [orderID |-> call[p].oid, method |-> PaymentMethodQRIS,
                       status |-> PaymentStatusPending,
                       amount |-> call[p].order.subtotal,
                       txn |-> generateTransactionID, ext |-> ""]
       IN  IF dbOK /\ UniqueOrderID(call[p].oid)
           THEN /\ payments' = Append(payments, payment)
                /\ Finish(p, [call[p] EXCEPT !.pid = Len(payments) + 1], "ok")
           ELSE /\ Finish(p, call[p], "failed to create payment record")
                /\ UNCHANGED payments
    /\ UNCHANGED <<menu, orders, ncalls>>
    /\ UNCHANGED kitchen

InitiateQRISPayment_Create(p, dbOK) ==
    /\ At(p, "InitiateQRISPayment", "Create")
    /\ LET payment == [orderID |-> call[p].oid, method |-> PaymentMethodQRIS,
                       status |-> PaymentStatusPending,
                       amount |-> call[p].order.total,
                       txn |-> generateTransactionID, ext |-> ""]
       IN  IF dbOK /\ UniqueOrderID(call[p].oid)
           THEN /\ payments' = Append(payments, payment)
                /\ Finish(p, [call[p] EXCEPT !.pid = Len(payments) + 1], "ok")
           ELSE /\ Finish(p, call[p], "failed to create payment record")
                /\ UNCHANGED payments
    /\ UNCHANGED <<menu, orders, ncalls>>
    /\ UNCHANGED kitchen

---------------------------------------------------------------------------
(* PaymentService.VerifyPayment, behind POST /payments/verify *)

(* VerifyPayment_Get without the comparison of the reported amount with the
   payment's amount.  VerifyPaymentRejects fails with it. *)
VerifyPayment_GetAnyAmount(p, transactionID, amount, status) ==
    /\ CanStart(p)
    /\ ncalls' = ncalls + 1
    /\ LET c   == [Started("VerifyPayment") EXCEPT
                      !.req = [txn |-> transactionID, amount |-> amount,
                               status |-> status]]
           pid == GetByTransactionID(transactionID)
           newStatus == IF status \in {"success", "completed"} THEN PaymentStatusCompleted
                        ELSE IF status = "failed" THEN PaymentStatusFailed
                        ELSE ""
       IN  IF pid = 0
           THEN Finish(p, c, "payment not found")
           ELSE IF newStatus = ""
           THEN Finish(p, [c EXCEPT !.pid = pid], "invalid payment status")
           ELSE Continue(p,
                    [c EXCEPT !.pc = "Update", !.pid = pid,
                              !.oid = payments[pid].orderID,
                              !.status = newStatus,
                              !.payment = payments[pid]])
    /\ UNCHANGED <<menu, orders, payments>>
    /\ UNCHANGED kitchen

VerifyPayment_Get(p, transactionID, amount, status) ==
    /\ CanStart(p)
    /\ ncalls' = ncalls + 1
    /\ LET c   == [Started("VerifyPayment") EXCEPT
                      !.req = [txn |-> transactionID, amount |-> amount,
                               status |-> status]]
           pid == GetByTransactionID(transactionID)
           newStatus == IF status \in {"success", "completed"} THEN PaymentStatusCompleted
                        ELSE IF status = "failed" THEN PaymentStatusFailed
                        ELSE ""
       IN  IF pid = 0
           THEN Finish(p, c, "payment not found")
           ELSE IF payments[pid].amount # amount
           THEN Finish(p, [c EXCEPT !.pid = pid], "amount mismatch")
           ELSE IF newStatus = ""
           THEN Finish(p, [c EXCEPT !.pid = pid], "invalid payment status")
           ELSE Continue(p,
                    [c EXCEPT !.pc = "Update", !.pid = pid,
                              !.oid = payments[pid].orderID,
                              !.status = newStatus,
                              !.payment = payments[pid]])
    /\ UNCHANGED <<menu, orders, payments>>
    /\ UNCHANGED kitchen

(* payment.Status = newStatus; payment.ExternalID = req.ExternalID;
   PaymentRepository.Update: Save(payment) writes every column of the row
   from the copy the handler loaded. *)
VerifyPayment_Update(p, dbOK) ==
    /\ At(p, "VerifyPayment", "Update")
    /\ IF dbOK
       THEN /\ payments' = [payments EXCEPT ![call[p].pid] =
                    [call[p].payment EXCEPT !.status = call[p].status,
                                            !.ext = "external"]]
            /\ IF call[p].status = PaymentStatusCompleted
               THEN Continue(p, [call[p] EXCEPT !.pc = "UpdateStatus"])
               ELSE Finish(p, call[p], "ok")
       ELSE /\ Finish(p, call[p], "failed to update payment status")
            /\ UNCHANGED payments
    /\ UNCHANGED <<menu, orders, ncalls>>
    /\ UNCHANGED kitchen

VerifyPayment_UpdateStatus(p, dbOK) ==
    /\ At(p, "VerifyPayment", "UpdateStatus")
    /\ IF dbOK
       THEN /\ orders' = UpdateStatus(call[p].oid, OrderStatusConfirmed)
            /\ Finish(p, [call[p] EXCEPT !.rows = UpdateStatusRows(call[p].oid)], "ok")
       ELSE /\ Finish(p, call[p], "failed to update order status")
            /\ UNCHANGED orders
    /\ UNCHANGED <<menu, payments, ncalls>>
    /\ UNCHANGED kitchen

---------------------------------------------------------------------------
(* PaymentService.RefundPayment, behind POST /payments/{payment_id}/refund *)

RefundPayment_Get(p, paymentID) ==
    /\ CanStart(p)
    /\ ncalls' = ncalls + 1
    /\ LET c == [Started("RefundPayment") EXCEPT !.pid = paymentID]
       IN  IF paymentID \notin DOMAIN payments
           THEN Finish(p, c, "payment not found")
           ELSE IF payments[paymentID].status # PaymentStatusCompleted
           THEN Finish(p, c, "can only refund completed payments")
           ELSE Continue(p,
                    [c EXCEPT !.pc = "Update",
                              !.oid = payments[paymentID].orderID,
                              !.payment = payments[paymentID]])
    /\ UNCHANGED <<menu, orders, payments>>
    /\ UNCHANGED kitchen

RefundPayment_Update(p, dbOK) ==
    /\ At(p, "RefundPayment", "Update")
    /\ IF dbOK
       THEN /\ payments' = [payments EXCEPT ![call[p].pid] =
                    [call[p].payment EXCEPT !.status = PaymentStatusRefunded]]
            /\ Continue(p, [call[p] EXCEPT !.pc = "UpdateStatus"])
       ELSE /\ Finish(p, call[p], "failed to update payment status")
            /\ UNCHANGED payments
    /\ UNCHANGED <<menu, orders, ncalls>>
    /\ UNCHANGED kitchen

RefundPayment_UpdateStatus(p, dbOK) ==
    /\ At(p, "RefundPayment", "UpdateStatus")
    /\ IF dbOK
       THEN /\ orders' = UpdateStatus(call[p].oid, OrderStatusCancelled)
            /\ Finish(p, [call[p] EXCEPT !.rows = UpdateStatusRows(call[p].oid)], "ok")
       ELSE /\ Finish(p, call[p], "failed to update order status")
            /\ UNCHANGED orders
    /\ UNCHANGED <<menu, payments, ncalls>>
    /\ UNCHANGED kitchen

---------------------------------------------------------------------------
(* PaymentService.ProcessRefund, behind POST /admin/payments/{id}/refund;
   the request binding admits amounts from 0.01. *)

(* ProcessRefund_Get without the comparison of the amount with the original
   payment's.  RefundValidates fails with it. *)
ProcessRefund_GetAnyAmount(p, paymentID, amount) ==
    /\ CanStart(p)
    /\ amount > 0
    /\ ncalls' = ncalls + 1
    /\ LET c == [Started("ProcessRefund") EXCEPT !.pid = paymentID, !.amount = amount]
       IN  IF paymentID \notin DOMAIN payments
           THEN Finish(p, c, "payment not found")
           ELSE IF payments[paymentID].status # PaymentStatusCompleted
           THEN Finish(p, c, "can only refund completed payments")
           ELSE Continue(p,
                    [c EXCEPT !.pc = "Create",
                              !.oid = payments[paymentID].orderID,
                              !.payment = payments[paymentID]])
    /\ UNCHANGED <<menu, orders, payments>>
    /\ UNCHANGED kitchen

ProcessRefund_Get(p, paymentID, amount) ==
    /\ CanStart(p)
    /\ amount > 0
    /\ ncalls' = ncalls + 1
    /\ LET c == [Started("ProcessRefund") EXCEPT !.pid = paymentID, !.amount = amount]
       IN  IF paymentID \notin DOMAIN payments
           THEN Finish(p, c, "payment not found")
           ELSE IF payments[paymentID].status # PaymentStatusCompleted
           THEN Finish(p, c, "can only refund completed payments")
           ELSE IF amount > payments[paymentID].amount
           THEN Finish(p, c, "refund amount cannot exceed original payment amount")
           ELSE Continue(p,
                    [c EXCEPT !.pc = "Create",
                              !.oid = payments[paymentID].orderID,
                              !.payment = payments[paymentID]])
    /\ UNCHANGED <<menu, orders, payments>>
    /\ UNCHANGED kitchen

(* The refund record is INSERTed as one more payments row of the same order.
   After a full refund the original is written back with Save(payment) as
   refunded; that UPDATE is a statement of its own (updateOK), reached only
   when the INSERT went through. *)
ProcessRefund_Create(p, dbOK, updateOK) ==
    /\ At(p, "ProcessRefund", "Create")
    /\ LET payment == call[p].payment
           refund  == [orderID |-> payment.orderID, method |-> payment.method,
                       status |-> PaymentStatusCompleted,
                       amount |-> 0 - call[p].amount,
                       txn |-> "REFUND-" \o payment.txn, ext |-> ""]
           created == Append(payments, refund)
       IN  IF ~(dbOK /\ UniqueOrderID(payment.orderID))
           THEN /\ Finish(p, call[p], "db error")
                /\ UNCHANGED payments
           ELSE IF call[p].amount # payment.amount
           THEN /\ payments' = created
                /\ Finish(p, call[p], "ok")
           ELSE IF ~updateOK
           THEN /\ payments' = created
                /\ Finish(p, call[p], "db error")
           ELSE /\ payments' = [created EXCEPT ![call[p].pid] =
                        [payment EXCEPT !.status = PaymentStatusRefunded]]
                /\ Finish(p, call[p], "ok")
    /\ UNCHANGED <<menu, orders, ncalls>>
    /\ UNCHANGED kitchen

---------------------------------------------------------------------------
(* PaymentManagementController.UpdatePaymentStatus and
   PaymentService.UpdatePaymentStatus, behind
   PATCH /admin/payments/{id}/status *)

PaymentStatuses ==
    { PaymentStatusPending, PaymentStatusCompleted, PaymentStatusFailed,
      PaymentStatusRefunded, PaymentStatusCancelled }

UpdatePaymentStatus_Get(p, id, status) ==
    /\ CanStart(p)
    /\ ncalls' = ncalls + 1
    /\ LET c == [Started("UpdatePaymentStatus") EXCEPT !.pid = id, !.status = status]
       IN  IF status \notin PaymentStatuses
           THEN Finish(p, c, "Invalid payment status")
           ELSE IF id \notin DOMAIN payments
           THEN Finish(p, c, "payment not found")
           ELSE Continue(p, [c EXCEPT !.pc = "Update", !.payment = payments[id]])
    /\ UNCHANGED <<menu, orders, payments>>
    /\ UNCHANGED kitchen

(* payment.Status = paymentStatus; PaymentRepository.Update: Save(payment). *)
UpdatePaymentStatus_Update(p, dbOK) ==
    /\ At(p, "UpdatePaymentStatus", "Update")
    /\ IF dbOK
       THEN /\ payments' = [payments EXCEPT ![call[p].pid] =
                    [call[p].payment EXCEPT !.status = call[p].status]]
            /\ Finish(p, call[p], "ok")
       ELSE /\ Finish(p, call[p], "db error")
            /\ UNCHANGED payments
    /\ UNCHANGED <<menu, orders, ncalls>>
    /\ UNCHANGED kitchen

---------------------------------------------------------------------------
(* PaymentService.ProcessCashPayment, behind POST /cashier/payments/cash *)

ProcessCashPayment_GetOrder(p, orderID, amountPaid) ==
    /\ CanStart(p)
    /\ amountPaid > 0
    /\ ncalls' = ncalls + 1
    /\ LET c == [Started("ProcessCashPayment") EXCEPT
                     !.oid = orderID, !.amount = amountPaid]
       IN  IF ~OrderFound(orderID)
           THEN Finish(p, c, "order not found")
           ELSE IF orders[orderID].status # OrderStatusPending
           THEN Finish(p, c, "order is not pending payment")
           ELSE Continue(p,
                    [c EXCEPT !.pc = "GetByOrderID", !.order = orders[orderID]])
    /\ UNCHANGED <<menu, orders, payments>>
    /\ UNCHANGED kitchen

ProcessCashPayment_GetByOrderID(p) ==
    /\ At(p, "ProcessCashPayment", "GetByOrderID")
    /\ LET existing == GetByOrderID(call[p].oid)
       IN  IF existing # 0 /\ payments[existing].status = PaymentStatusCompleted
           THEN Finish(p, call[p], "order already paid")
           ELSE IF call[p].amount < call[p].order.total
           THEN Finish(p, call[p], "insufficient payment amount")
           ELSE Continue(p, [call[p] EXCEPT !.pc = "Create"])
    /\ UNCHANGED <<menu, orders, payments, ncalls>>
    /\ UNCHANGED kitchen

ProcessCashPayment_Create(p, dbOK) ==
    /\ At(p, "ProcessCashPayment", "Create")
    /\ LET payment == [orderID |-> call[p].oid, method |-> PaymentMethodCash,
                       status |-> PaymentStatusCompleted,
                       amount |-> call[p].order.total,
                       txn |-> generateTransactionID, ext |-> ""]
       IN  IF dbOK /\ UniqueOrderID(call[p].oid)
           THEN /\ payments' = Append(payments, payment)
                /\ Continue(p, [call[p] EXCEPT !.pc = "UpdateStatus",
                                                !.pid = Len(payments) + 1])
           ELSE /\ Finish(p, call[p], "failed to create payment record")
                /\ UNCHANGED payments
    /\ UNCHANGED <<menu, orders, ncalls>>
    /\ UNCHANGED kitchen

ProcessCashPayment_UpdateStatus(p, dbOK) ==
    /\ At(p, "ProcessCashPayment", "UpdateStatus")
    /\ IF dbOK
       THEN /\ orders' = UpdateStatus(call[p].oid, OrderStatusConfirmed)
            /\ Finish(p, [call[p] EXCEPT !.rows = UpdateStatusRows(call[p].oid)], "ok")
       ELSE /\ Finish(p, call[p], "failed to update order status")
            /\ UNCHANGED orders
    /\ UNCHANGED <<menu, payments, ncalls>>
    /\ UNCHANGED kitchen

---------------------------------------------------------------------------
(* PaymentService.ReconcileCashPayments, behind
   POST /cashier/payments/reconcile *)

(* The columns of the payments table. *)
PaymentColumns ==
    {"id", "order_id", "method", "status", "amount", "qris_data",
     "transaction_id", "external_id", "created_at", "updated_at", "deleted_at"}

(* PaymentRepository.GetCashPaymentsByPeriod:
     WHERE payment_method = 'cash' AND created_at BETWEEN shiftStart AND shiftEnd
   The cashier id is not part of the query.  The rows it selects, given that
   the database accepts the query. *)
GetCashPaymentsByPeriod(cashierID, shiftStart, shiftEnd) ==
    SelectSeq(payments,
              LAMBDA row : /\ row.method = PaymentMethodCash
                           /\ shiftStart <= row.createdAt
                           /\ row.createdAt <= shiftEnd)

(* The database rejects a query naming a column the table does not have. *)
GetCashPaymentsByPeriodErr == "payment_method" \notin PaymentColumns

(* for _, payment := range cashPayments { if payment.Amount > 0 { ... } } *)
RECURSIVE calculatedTotal(_)
calculatedTotal(cashPayments) ==
    IF cashPayments = << >> THEN 0
    ELSE (IF Head(cashPayments).amount > 0 THEN Head(cashPayments).amount ELSE 0)
         + calculatedTotal(Tail(cashPayments))

(* ReconcileCashPayments that marks the payments it counted as reconciled.
   ReconcileMutatesNothing fails with it. *)
ReconcileCashPayments_Marking(p, cashierID, actualAmount, shiftStart, shiftEnd) ==
    /\ CanStart(p)
    /\ ncalls' = ncalls + 1
    /\ LET request == [NoReconciliation EXCEPT
                          !.cashierID = cashierID, !.shiftStart = shiftStart,
                          !.shiftEnd = shiftEnd, !.actualAmount = actualAmount]
           c == [Started("ReconcileCashPayments") EXCEPT !.reconciliation = request]
       IN  /\ payments' = [i \in DOMAIN payments |->
                  IF /\ payments[i].method = PaymentMethodCash
                     /\ shiftStart <= payments[i].createdAt
                     /\ payments[i].createdAt <= shiftEnd
                  THEN [payments[i] EXCEPT !.ext = "reconciled"]
                  ELSE payments[i]]
           /\ Finish(p, c, "ok")
    /\ UNCHANGED <<menu, orders>>
    /\ UNCHANGED kitchen

ReconcileCashPayments(p, cashierID, actualAmount, shiftStart, shiftEnd) ==
    /\ CanStart(p)
    /\ ncalls' = ncalls + 1
    /\ LET request == [NoReconciliation EXCEPT
                          !.cashierID = cashierID, !.shiftStart = shiftStart,
                          !.shiftEnd = shiftEnd, !.actualAmount = actualAmount]
           c == [Started("ReconcileCashPayments") EXCEPT !.reconciliation = request]
       IN  IF GetCashPaymentsByPeriodErr
           THEN Finish(p, c, "column payment_method does not exist")
           ELSE LET cashPayments ==
                        GetCashPaymentsByPeriod(cashierID, shiftStart, shiftEnd)
                    total == calculatedTotal(cashPayments)
                IN  Finish(p,
                        [c EXCEPT !.reconciliation =
                            [request EXCEPT
                                !.calculatedAmount = total,
                                !.difference = actualAmount - total,
                                !.paymentCount = Len(cashPayments)]],
                        "ok")
    /\ UNCHANGED <<menu, orders, payments>>
    /\ UNCHANGED kitchen

---------------------------------------------------------------------------
(* KitchenService: the websocket connections of the kitchen displays, the
   RWMutex guarding them and the handleMessages goroutine that writes every
   message received on the unbuffered broadcast channel to every connection.
   A write to a connection fails when the peer is gone. *)

(* The handleMessages goroutine as a holder of the mutex; the request
   goroutines hold it under their own number. *)
Dispatcher == 0

(* OrderRepository.GetKitchenOrders: the orders whose status is confirmed or
   preparing (soft-deleted rows are out of scope). *)
GetKitchenOrders ==
    { o \in DOMAIN orders :
        /\ ~orders[o].deleted
        /\ orders[o].status \in {OrderStatusConfirmed, OrderStatusPreparing} }

(* HandleWebSocket calls AddClient, which takes the write lock.  The
   connections are interchangeable, so the second one is opened only after
   the first. *)
AddClient_Lock(h) ==
    /\ Quiet
    /\ conns[h].pc = "new"
    /\ h = 2 => conns[1].pc # "new"
    /\ mutex.writer = 0
    /\ mutex.readers = {}
    /\ mutex' = [mutex EXCEPT !.writer = h]
    /\ conns' = [conns EXCEPT ![h].pc = "AddClient"]
    /\ UNCHANGED <<menu, orders, payments, call, ncalls, clients, dispatch>>

(* AddClient under the write lock: s.clients[conn] = true, then the kitchen
   orders are fetched; when the fetch fails AddClient returns (the deferred
   Unlock), else the snapshot is marshalled. *)
AddClient_Add(h, readOK) ==
    /\ Quiet
    /\ conns[h].pc = "AddClient"
    /\ clients' = clients \cup {h}
    /\ IF ~readOK
       THEN /\ mutex' = [mutex EXCEPT !.writer = 0]
            /\ conns' = [conns EXCEPT ![h].pc = "open"]
       ELSE /\ conns' = [conns EXCEPT ![h].pc = "WriteMessage",
                            ![h].data = [NoMessage EXCEPT
                                            !.type = "initial_orders",
                                            !.orders = GetKitchenOrders]]
            /\ UNCHANGED mutex
    /\ UNCHANGED <<menu, orders, payments, call, ncalls, dispatch>>

(* conn.WriteMessage(data), still under the write lock; when the write fails
   the connection is deleted and closed.  The deferred Unlock ends
   AddClient. *)
AddClient_WriteMessage(h, writeOK) ==
    /\ Quiet
    /\ conns[h].pc = "WriteMessage"
    /\ mutex' = [mutex EXCEPT !.writer = 0]
    /\ IF writeOK
       THEN /\ conns' = [conns EXCEPT ![h].pc = "open",
                            ![h].data = NoMessage,
                            ![h].inbox = Append(@, conns[h].data)]
            /\ UNCHANGED clients
       ELSE /\ clients' = clients \ {h}
            /\ conns' = [conns EXCEPT ![h].pc = "open",
                            ![h].data = NoMessage,
                            ![h].closed = TRUE]
    /\ UNCHANGED <<menu, orders, payments, call, ncalls, dispatch>>

(* conn.ReadMessage returns an error (the peer left, or the connection was
   closed): HandleWebSocket leaves its loop and runs the deferred
   RemoveClient. *)
ReadMessageFails(h) ==
    /\ Quiet
    /\ conns[h].pc = "open"
    /\ conns' = [conns EXCEPT ![h].pc = "RemoveClient"]
    /\ UNCHANGED <<menu, orders, payments, call, ncalls, clients, mutex, dispatch>>

RemoveClient_Lock(h) ==
    /\ Quiet
    /\ conns[h].pc = "RemoveClient"
    /\ mutex.writer = 0
    /\ mutex.readers = {}
    /\ mutex' = [mutex EXCEPT !.writer = h]
    /\ conns' = [conns EXCEPT ![h].pc = "RemoveClientLocked"]
    /\ UNCHANGED <<menu, orders, payments, call, ncalls, clients, dispatch>>

(* RemoveClient that leaves the connection in the set.
   UnsubscribeRemoves fails with it. *)
RemoveClient_Keep(h) ==
    /\ Quiet
    /\ conns[h].pc = "RemoveClientLocked"
    /\ mutex' = [mutex EXCEPT !.writer = 0]
    /\ conns' = [conns EXCEPT ![h].pc = "closed", ![h].closed = TRUE]
    /\ UNCHANGED <<menu, orders, payments, call, ncalls, clients, dispatch>>

(* delete(s.clients, conn); conn.Close(); the deferred Unlock.  Back in
   HandleWebSocket the deferred conn.Close() follows, so the connection is
   closed also when it was no longer among the clients. *)
RemoveClient_Delete(h) ==
    /\ Quiet
    /\ conns[h].pc = "RemoveClientLocked"
    /\ clients' = clients \ {h}
    /\ mutex' = [mutex EXCEPT !.writer = 0]
    /\ conns' = [conns EXCEPT ![h].pc = "closed", ![h].closed = TRUE]
    /\ UNCHANGED <<menu, orders, payments, call, ncalls, dispatch>>

(* POST /kitchen/broadcast: KitchenService.BroadcastOrderUpdate reads the
   order; when the read fails it logs and returns.  The controller answers
   200 with the client count either way. *)
BroadcastOrderUpdate_GetByID(p, orderID, readOK) ==
    /\ CanStart(p)
    /\ ncalls' = ncalls + 1
    /\ LET c == [Started("BroadcastOrderUpdate") EXCEPT !.oid = orderID]
       IN  IF ~readOK \/ ~OrderFound(orderID)
           THEN Continue(p, [c EXCEPT !.pc = "RLock"])
           ELSE Continue(p, [c EXCEPT !.pc = "Send", !.order = orders[orderID]])
    /\ UNCHANGED <<menu, orders, payments>>
    /\ UNCHANGED kitchen

(* The KitchenUpdate made of the order the handler read. *)
KitchenUpdate(c) ==
    [NoMessage EXCEPT !.type = "status_update", !.orderID = c.oid,
                      !.status = c.order.status]

(* A send on the broadcast channel that waits for the receiver.
   BroadcastNeverBlocks fails with it. *)
BroadcastOrderUpdate_SendBlocking(p) ==
    /\ At(p, "BroadcastOrderUpdate", "Send")
    /\ dispatch.pc = "recv"
    /\ dispatch' = [pc |-> "RLock", message |-> KitchenUpdate(call[p]), visited |-> {}]
    /\ Continue(p, [call[p] EXCEPT !.pc = "RLock"])
    /\ UNCHANGED <<menu, orders, payments, ncalls, clients, mutex, conns>>

(* select { case s.broadcast <- data: default: log }: the channel has no
   buffer, so the message is taken only if handleMessages is waiting in its
   receive; otherwise it is dropped. *)
BroadcastOrderUpdate_Send(p) ==
    /\ At(p, "BroadcastOrderUpdate", "Send")
    /\ IF dispatch.pc = "recv"
       THEN dispatch' = [pc |-> "RLock", message |-> KitchenUpdate(call[p]),
                         visited |-> {}]
       ELSE UNCHANGED dispatch
    /\ Continue(p, [call[p] EXCEPT !.pc = "RLock"])
    /\ UNCHANGED <<menu, orders, payments, ncalls, clients, mutex, conns>>

(* KitchenService.GetClientCount: RLock, ... *)
GetClientCount_RLock(p) ==
    /\ At(p, "BroadcastOrderUpdate", "RLock")
    /\ mutex.writer = 0
    /\ mutex' = [mutex EXCEPT !.readers = @ \cup {p}]
    /\ Continue(p, [call[p] EXCEPT !.pc = "RUnlock"])
    /\ UNCHANGED <<menu, orders, payments, ncalls, clients, dispatch, conns>>

(* ... len(s.clients) and the deferred RUnlock. *)
GetClientCount_RUnlock(p) ==
    /\ At(p, "BroadcastOrderUpdate", "RUnlock")
    /\ mutex' = [mutex EXCEPT !.readers = @ \ {p}]
    /\ Finish(p, [call[p] EXCEPT !.rows = Cardinality(clients)], "ok")
    /\ UNCHANGED <<menu, orders, payments, ncalls, clients, dispatch, conns>>

(* handleMessages going into its loop without waiting for the holder of the
   write lock.  ConnectionWritesExclusive fails with it. *)
handleMessages_RLockNoWait ==
    /\ Quiet
    /\ dispatch.pc = "RLock"
    /\ mutex' = [mutex EXCEPT !.readers = @ \cup {Dispatcher}]
    /\ dispatch' = [dispatch EXCEPT !.pc = "range"]
    /\ UNCHANGED <<menu, orders, payments, call, ncalls, clients, conns>>

(* handleMessages has received a message and takes the read lock. *)
handleMessages_RLock ==
    /\ Quiet
    /\ dispatch.pc = "RLock"
    /\ mutex.writer = 0
    /\ mutex' = [mutex EXCEPT !.readers = @ \cup {Dispatcher}]
    /\ dispatch' = [dispatch EXCEPT !.pc = "range"]
    /\ UNCHANGED <<menu, orders, payments, call, ncalls, clients, conns>>

(* The body of the range loop that keeps a connection whose write failed.
   BroadcastReachesAll fails with it. *)
handleMessages_WriteMessageKeep(h, writeOK) ==
    /\ Quiet
    /\ dispatch.pc = "range"
    /\ h \in clients \ dispatch.visited
    /\ dispatch' = [dispatch EXCEPT !.visited = @ \cup {h}]
    /\ IF writeOK
       THEN conns' = [conns EXCEPT ![h].inbox = Append(@, dispatch.message)]
       ELSE UNCHANGED conns
    /\ UNCHANGED <<menu, orders, payments, call, ncalls, clients, mutex>>

(* One pass of the body of `for client := range s.clients`: the message is
   written to a connection not yet visited; when the write fails the
   connection is deleted from the map, under the read lock, and closed. *)
handleMessages_WriteMessage(h, writeOK) ==
    /\ Quiet
    /\ dispatch.pc = "range"
    /\ h \in clients \ dispatch.visited
    /\ IF writeOK
       THEN /\ conns' = [conns EXCEPT ![h].inbox = Append(@, dispatch.message)]
            /\ dispatch' = [dispatch EXCEPT !.visited = @ \cup {h}]
            /\ UNCHANGED clients
       ELSE /\ clients' = clients \ {h}
            /\ conns' = [conns EXCEPT ![h].closed = TRUE]
            /\ UNCHANGED dispatch
    /\ UNCHANGED <<menu, orders, payments, call, ncalls, mutex>>

(* The range is over: RUnlock, and back to the receive. *)
handleMessages_RUnlock ==
    /\ Quiet
    /\ dispatch.pc = "range"
    /\ clients \ dispatch.visited = {}
    /\ mutex' = [mutex EXCEPT !.readers = @ \ {Dispatcher}]
    /\ dispatch' = [pc |-> "recv", message |-> NoMessage, visited |-> {}]
    /\ UNCHANGED <<menu, orders, payments, call, ncalls, clients, conns>>

---------------------------------------------------------------------------
(* The response is written and the request goroutine ends. *)
Return(p) ==
    /\ call[p].pc = "done"
    /\ call' = [call EXCEPT ![p] = Idle]
    /\ UNCHANGED <<menu, orders, payments, ncalls>>
    /\ UNCHANGED kitchen

---------------------------------------------------------------------------
(* Inputs of the payment requests, drawn from what the tables hold. *)
TransactionIDs == { payments[i].txn : i \in DOMAIN payments } \cup {"RD0"}
ReportedAmounts == { payments[i].amount : i \in DOMAIN payments } \cup {1}
PaymentIDs == DOMAIN payments \cup {Len(payments) + 1}
RefundAmounts ==
    UNION { {payments[i].amount - 100, payments[i].amount, payments[i].amount + 100} :
                i \in DOMAIN payments }
TenderedAmounts ==
    UNION { {orders[i].total - 1, orders[i].total, orders[i].total + 250} : i \in DOMAIN orders }

Init ==
    /\ menu = [id \in MenuIDs |-> [price |-> IF id = 1 THEN 1000 ELSE 500, available |-> TRUE]]
    /\ orders = << >>
    /\ payments = << >>
    /\ call = [p \in Procs |-> Idle]
    /\ ncalls = 0
    /\ clients = {}
    /\ mutex = [writer |-> 0, readers |-> {}]
    /\ dispatch = [pc |-> "recv", message |-> NoMessage, visited |-> {}]
    /\ conns = [h \in Handles |->
                  [pc |-> "new", data |-> NoMessage, inbox |-> << >>, closed |-> FALSE]]

(* A write succeeds (TRUE) or fails (FALSE); DB is the set of outcomes the
   database can produce.  Written(n, DB) is the number of rows a run of n
   single-row INSERTs can have created when it stops. *)
Written(n, DB) == IF FALSE \in DB THEN 0 .. n ELSE {n}

NextOf(DB) ==
    \E p \in Procs :
        \/ \E item \in MenuUpdates, dbOK \in DB : UpdateMenuItem(p, item, dbOK)
        \/ \E items \in CreateItemLists, lookupOK \in DB, dbOK \in DB :
              CreateOrder(p, items, lookupOK, dbOK)
        \/ \E items \in CreateItemLists, lookupOK \in DB, dbOK \in DB :
              \E written \in Written(Len(items), DB) :
                  CreateCashierOrder(p, items, lookupOK, dbOK, written)
        \/ \E id \in OrderIDs, status \in OrderStatuses : UpdateOrderStatus_Get(p, id, status)
        \/ \E dbOK \in DB : UpdateOrderStatus_UpdateStatus(p, dbOK)
        \/ \E id \in OrderIDs, status \in AdminStatusInputs, dbOK \in DB :
              UpdateOrderStatusAdmin(p, id, status, dbOK)
        \/ \E id \in OrderIDs, dbOK \in DB : DeleteOrder(p, id, dbOK)
        \/ \E id \in OrderIDs, items \in UpdateItemLists : UpdateOrderItems_Get(p, id, items)
        \/ \E dbOK \in DB :
              \E written \in Written(Len(call[p].items), DB) :
                  UpdateOrderItems_Replace(p, dbOK, written)
        \/ \E dbOK \in DB : UpdateOrderItems_UpdateOrder(p, dbOK)
        \/ \E id \in OrderIDs : InitiateQRISPayment_GetOrder(p, id)
        \/ InitiateQRISPayment_GetByOrderID(p)
        \/ \E dbOK \in DB : InitiateQRISPayment_Create(p, dbOK)
        \/ \E txn \in TransactionIDs, amount \in ReportedAmounts, status \in ReportedStatuses :
              VerifyPayment_Get(p, txn, amount, status)
        \/ \E dbOK \in DB : VerifyPayment_Update(p, dbOK)
        \/ \E dbOK \in DB : VerifyPayment_UpdateStatus(p, dbOK)
        \/ \E id \in PaymentIDs : RefundPayment_Get(p, id)
        \/ \E dbOK \in DB : RefundPayment_Update(p, dbOK)
        \/ \E dbOK \in DB : RefundPayment_UpdateStatus(p, dbOK)
        \/ \E id \in PaymentIDs, amount \in RefundAmounts : ProcessRefund_Get(p, id, amount)
        \/ \E dbOK \in DB, updateOK \in DB : ProcessRefund_Create(p, dbOK, updateOK)
        \/ \E id \in PaymentIDs, status \in PaymentStatusInputs :
              UpdatePaymentStatus_Get(p, id, status)
        \/ \E dbOK \in DB : UpdatePaymentStatus_Update(p, dbOK)
        \/ \E id \in OrderIDs, amountPaid \in TenderedAmounts :
              ProcessCashPayment_GetOrder(p, id, amountPaid)
        \/ ProcessCashPayment_GetByOrderID(p)
        \/ \E dbOK \in DB : ProcessCashPayment_Create(p, dbOK)
        \/ \E dbOK \in DB : ProcessCashPayment_UpdateStatus(p, dbOK)
        \/ Return(p)

(* Every request, against a database whose writes may fail. *)
Next == NextOf(BOOLEAN)

(* Every request, against a database whose writes never fail. *)
NextReliable == NextOf({TRUE})

(* Order creation and PATCH /orders/{id}/status only. *)
NextStatus ==
    \E p \in Procs :
        \/ \E items \in ItemLists, dbOK \in BOOLEAN : CreateOrder(p, items, TRUE, dbOK)
        \/ \E id \in OrderIDs, status \in OrderStatuses : UpdateOrderStatus_Get(p, id, status)
        \/ \E dbOK \in BOOLEAN : UpdateOrderStatus_UpdateStatus(p, dbOK)
        \/ Return(p)

(* The kitchen displays: order creation, PATCH /orders/{id}/status,
   POST /kitchen/broadcast and the websocket connections; NET is the set of
   outcomes of a read of the database or a write to a connection. *)
NextKitchenOf(NET) ==
    \/ \E p \in Procs :
          \/ CreateOrder(p, << [menuItemID |-> 1, quantity |-> 1] >>, TRUE, TRUE)
          \/ \E id \in OrderIDs, status \in OrderStatuses : UpdateOrderStatus_Get(p, id, status)
          \/ UpdateOrderStatus_UpdateStatus(p, TRUE)
          \/ \E id \in OrderIDs, readOK \in NET : BroadcastOrderUpdate_GetByID(p, id, readOK)
          \/ BroadcastOrderUpdate_Send(p)
          \/ GetClientCount_RLock(p)
          \/ GetClientCount_RUnlock(p)
          \/ Return(p)
    \/ \E h \in Handles :
          \/ AddClient_Lock(h)
          \/ \E readOK \in NET : AddClient_Add(h, readOK)
          \/ \E writeOK \in NET : AddClient_WriteMessage(h, writeOK)
          \/ ReadMessageFails(h)
          \/ RemoveClient_Lock(h)
          \/ RemoveClient_Delete(h)
          \/ \E writeOK \in NET : handleMessages_WriteMessage(h, writeOK)
    \/ handleMessages_RLock
    \/ handleMessages_RUnlock

NextKitchen == NextKitchenOf(BOOLEAN)

(* The end of a shift: the orders table holds the order the payments are
   for, the payments table holds up to MaxShiftPayments rows of either method, of either sign (a refund record is negative), made at
   one of three times on orders entered by one of two cashiers
   (Preload("Order"): the order's user), and cashiers reconcile. *)
Cashiers == {1, 2}
Times == {1, 2, 3}

ShiftPayments ==
    [orderID : {1}, method : {PaymentMethodCash, PaymentMethodQRIS},
     status : {PaymentStatusCompleted}, amount : {1100, -1100},
     txn : {"RD1"}, ext : {""}, createdAt : Times, cashier : Cashiers]

InitReconcile ==
    /\ menu = [id \in MenuIDs |-> [price |-> IF id = 1 THEN 1000 ELSE 500, available |-> TRUE]]
    /\ orders = << [status |-> OrderStatusConfirmed, deleted |-> FALSE,
                    subtotal |-> 1000, vat |-> 100, total |-> 1100,
                    items |-> << [menuItemID |-> 1, quantity |-> 1,
                                  unitPrice |-> 1000, totalPrice |-> 1000] >>] >>
    /\ payments \in UNION { [1 .. n -> ShiftPayments] : n \in 0 .. MaxShiftPayments }
    /\ call = [p \in Procs |-> Idle]
    /\ ncalls = 0
    /\ clients = {}
    /\ mutex = [writer |-> 0, readers |-> {}]
    /\ dispatch = [pc |-> "recv", message |-> NoMessage, visited |-> {}]
    /\ conns = [h \in Handles |->
                  [pc |-> "new", data |-> NoMessage, inbox |-> << >>, closed |-> FALSE]]

NextReconcile ==
    \E p \in Procs :
        \/ \E cashierID \in Cashiers, actualAmount \in {1100, 2000},
              shiftStart \in Times, shiftEnd \in Times :
                ReconcileCashPayments(p, cashierID, actualAmount, shiftStart, shiftEnd)
        \/ Return(p)

SpecReconcile == InitReconcile /\ [][NextReconcile]_vars

Spec == Init /\ [][Next]_vars

SpecKitchen == Init /\ [][NextKitchen]_vars

(* Status changes and broadcasts with no display connected. *)
NextNotify ==
    \/ \E p \in Procs :
          \/ CreateOrder(p, << [menuItemID |-> 1, quantity |-> 1] >>, TRUE, TRUE)
          \/ \E id \in OrderIDs, status \in OrderStatuses : UpdateOrderStatus_Get(p, id, status)
          \/ UpdateOrderStatus_UpdateStatus(p, TRUE)
          \/ \E id \in OrderIDs, readOK \in BOOLEAN : BroadcastOrderUpdate_GetByID(p, id, readOK)
          \/ BroadcastOrderUpdate_Send(p)
          \/ GetClientCount_RLock(p)
          \/ GetClientCount_RUnlock(p)
          \/ Return(p)
    \/ handleMessages_RLock
    \/ handleMessages_RUnlock

(* The steps the server takes by itself: a handler that has started goes
   on to its end, and handleMessages keeps running. *)
NotifyRuns ==
    \/ \E p \in Procs :
          \/ UpdateOrderStatus_UpdateStatus(p, TRUE)
          \/ BroadcastOrderUpdate_Send(p)
          \/ GetClientCount_RLock(p)
          \/ GetClientCount_RUnlock(p)
          \/ Return(p)
    \/ handleMessages_RLock
    \/ handleMessages_RUnlock

(* Requests arrive when clients send them; what has started is run to its
   end by the scheduler. *)
SpecNotify == Init /\ [][NextNotify]_vars /\ WF_vars(NotifyRuns)

SpecReliable == Init /\ [][NextReliable]_vars

SpecStatus == Init /\ [][NextStatus]_vars

---------------------------------------------------------------------------
(* The order state machine as the specification tables it. *)

SpecSuccessors(s) ==
    CASE s = "pending"   -> {"confirmed", "cancelled"}
      [] s = "confirmed" -> {"preparing", "cancelled"}
      [] s = "preparing" -> {"ready"}
      [] s = "ready"     -> {"served"}
      [] OTHER           -> {}

(* C1: every order is created pending, and every later change of an order's
   stored status, whichever operation writes it, goes from a status to one of
   its listed successors.  The admin status update, payment verification and
   the refund write the status without looking at the table. *)
StatusChangesFollowTable ==
    [][\A o \in DOMAIN orders' :
          IF o \in DOMAIN orders
          THEN \/ orders'[o].status = orders[o].status
               \/ orders'[o].status \in SpecSuccessors(orders[o].status)
          ELSE orders'[o].status = "pending"]_vars

(* C2: a call of OrderService.UpdateOrderStatus that found its order succeeds
   only when the target is a listed successor of the status it read, and then
   the row it matched holds the target; any other target (the status itself,
   or anything from served or cancelled) is refused with the error naming both
   statuses, and the orders table is left as it was.  A failed UPDATE is the
   one other way to fail, and it too leaves the table as it was. *)
UpdateOrderStatusValidates ==
    [][\A p \in Procs :
          ( /\ call'[p].op = "UpdateOrderStatus"
            /\ call'[p].pc = "done"
            /\ call[p].pc # "done"
            /\ call'[p].res # "order not found" )
          => LET oid    == call'[p].oid
                 target == call'[p].status
                 cur    == IF call[p].pc = "UpdateStatus"
                           THEN call[p].order.status
                           ELSE orders[oid].status
             IN  IF target \in SpecSuccessors(cur)
                 THEN /\ call'[p].res \in {"ok", "db error"}
                      /\ (call'[p].res = "ok" /\ call'[p].rows = 1)
                            => orders'[oid].status = target
                      /\ call'[p].res # "ok" => orders' = orders
                 ELSE /\ call'[p].res =
                            "invalid status transition from " \o cur \o " to " \o target
                      /\ orders' = orders]_vars

(* A confirmation asked for a cancelled order has been refused, and the order
   is still cancelled. *)
UpdateOrderStatusRefused ==
    \E p \in Procs :
        /\ call[p].op = "UpdateOrderStatus"
        /\ call[p].pc = "done"
        /\ call[p].res = "invalid status transition from cancelled to confirmed"
        /\ orders[call[p].oid].status = "cancelled"

(* C3: once an order's stored status is served or cancelled, no step changes
   it. *)
TerminalStatusFinal ==
    [][\A o \in DOMAIN orders :
          orders[o].status \in {"served", "cancelled"}
             => orders'[o].status = orders[o].status]_vars

(* C4: status updates on one order are serialized: a call of
   OrderService.UpdateOrderStatus that succeeds writes over the very status it
   validated against, so of two calls that read the same status only one can
   succeed. *)
StatusUpdatesSerialized ==
    [][\A p \in Procs :
          ( /\ call[p].op = "UpdateOrderStatus"
            /\ call[p].pc = "UpdateStatus"
            /\ call'[p].pc = "done"
            /\ call'[p].res = "ok" )
          => orders[call[p].oid].status = call[p].order.status]_vars

(* C5: when VerifyPayment, having marked the payment completed, comes to the
   order and the order is not pending, the verification fails and the orders
   table is left as it was. *)
VerifyPaymentValidatesTransition ==
    [][\A p \in Procs :
          ( /\ call[p].op = "VerifyPayment"
            /\ call[p].pc = "UpdateStatus"
            /\ call'[p].pc = "done"
            /\ OrderFound(call[p].oid)
            /\ orders[call[p].oid].status # "pending" )
          => /\ call'[p].res # "ok"
             /\ orders' = orders]_vars

(* C6: a verification of a payment that an earlier verification has already
   brought to a terminal status (completed or failed) changes neither that
   payment's status nor any order. *)
VerifyPaymentIdempotent ==
    [][\A p \in Procs :
          ( /\ call[p].op = "VerifyPayment"
            /\ call'[p] # call[p]
            /\ call[p].payment.ext # ""
            /\ call[p].payment.status \in {"completed", "failed"} )
          => /\ payments'[call[p].pid].status = payments[call[p].pid].status
             /\ orders' = orders]_vars

(* C7: in every reachable state an order has at most one payment row that is
   pending or completed and is not a refund (a refund row has a negative
   amount). *)
OnePaymentPerOrder ==
    \A o \in DOMAIN orders :
        Cardinality({ i \in DOMAIN payments :
                        /\ payments[i].orderID = o
                        /\ payments[i].status \in {"pending", "completed"}
                        /\ payments[i].amount >= 0 }) <= 1

(* A payment request is about to INSERT a row for an order that already has
   a payment row. *)
SecondPaymentAttempted ==
    \E p \in Procs :
        /\ call[p].op \in {"InitiateQRISPayment", "ProcessCashPayment"}
        /\ call[p].pc = "Create"
        /\ \E i \in DOMAIN payments : payments[i].orderID = call[p].oid

(* C8: a call of ProcessCashPayment that failed has left no completed cash
   payment row of its own. *)
CashPaymentAtomic ==
    \A p \in Procs :
        ( /\ call[p].op = "ProcessCashPayment"
          /\ call[p].pc = "done"
          /\ call[p].res # "ok" )
        => ~ \E i \in DOMAIN payments :
                 /\ i = call[p].pid
                 /\ payments[i].method = "cash"
                 /\ payments[i].status = "completed"

(* C9: a call of VerifyPayment that has marked its payment completed and has
   not advanced an order row does not return plain success. *)
VerifyPaymentReportsPartial ==
    \A p \in Procs :
        ( /\ call[p].op = "VerifyPayment"
          /\ call[p].pc = "done"
          /\ call[p].status = "completed"
          /\ payments[call[p].pid].status = "completed"
          /\ call[p].rows # 1 )
        => call[p].res # "ok"

RECURSIVE SumUnitPriceTimesQuantity(_)
SumUnitPriceTimesQuantity(lines) ==
    IF lines = << >> THEN 0
    ELSE Head(lines).unitPrice * Head(lines).quantity
            + SumUnitPriceTimesQuantity(Tail(lines))

(* C10: in every reachable state in which no line-item update is under way,
   every order's subtotal is the sum of unitPrice x quantity over its line
   items, its tax is 10% of the subtotal, and its total is subtotal plus
   tax. *)
TotalsConsistent ==
    (\A p \in Procs : call[p].op = "UpdateOrderItems" => call[p].pc = "done")
    => \A o \in DOMAIN orders :
        /\ orders[o].subtotal = SumUnitPriceTimesQuantity(orders[o].items)
        /\ orders[o].vat * 100 = orders[o].subtotal * 10
        /\ orders[o].total = orders[o].subtotal + orders[o].vat

(* C11: a call of ProcessCashPayment that ends with no other request in
   progress, on an order that no other request has touched meanwhile, fails with "order is not pending payment" unless the order is
   pending and with "insufficient payment amount" when the amount tendered is
   below the order's total, both without writing anything; on a pending,
   unpaid order with a tendered amount of at least the total it succeeds,
   its payment row is a completed cash payment of exactly the order's total,
   and the order is left confirmed. *)
CashPaymentContract ==
    [][\A p \in Procs :
          ( /\ call'[p].op = "ProcessCashPayment"
            /\ call'[p].pc = "done"
            /\ call[p].pc # "done"
            /\ call'[p].res # "order not found"
            /\ call[p].pc # "idle" => /\ OrderFound(call[p].oid)
                                      /\ orders[call[p].oid].status = "pending"
            /\ \A q \in Procs \ {p} : call[q] = Idle )
          => LET oid  == call'[p].oid
                 paid == \E i \in DOMAIN payments :
                            /\ payments[i].orderID = oid
                            /\ payments[i].status = "completed"
                            /\ i # call[p].pid
             IN  IF call[p].pc = "idle"
                 THEN /\ orders[oid].status # "pending"
                      /\ call'[p].res = "order is not pending payment"
                      /\ payments' = payments /\ orders' = orders
                 ELSE IF paid
                 THEN call'[p].res # "ok"
                 ELSE IF call[p].amount < call[p].order.total
                 THEN /\ call'[p].res = "insufficient payment amount"
                      /\ payments' = payments /\ orders' = orders
                 ELSE /\ call'[p].res = "ok"
                      /\ call'[p].pid \in DOMAIN payments'
                      /\ payments'[call'[p].pid].orderID = oid
                      /\ payments'[call'[p].pid].method = "cash"
                      /\ payments'[call'[p].pid].status = "completed"
                      /\ payments'[call'[p].pid].amount = call[p].order.total
                      /\ orders'[oid].status = "confirmed"]_vars

(* C12: a refund request for a payment that is not completed is refused with
   "can only refund completed payments", and one for more than the payment's
   amount with "refund amount cannot exceed original payment amount", so that
   only a request for a completed payment and at most its amount gets as far
   as writing; a refund that fails leaves the payments table as it was, and
   no step of a refund changes an order. *)
RefundValidates ==
    [][\A p \in Procs :
          (call'[p].op = "ProcessRefund" /\ call'[p] # call[p])
          => /\ orders' = orders
             /\ (call[p].pc = "idle" /\ call'[p].pid \in DOMAIN payments)
                  => LET payment == payments[call'[p].pid]
                     IN  /\ payments' = payments
                         /\ IF call'[p].pc = "done"
                            THEN IF payment.status # "completed"
                                 THEN call'[p].res = "can only refund completed payments"
                                 ELSE call'[p].res =
                                        "refund amount cannot exceed original payment amount"
                            ELSE /\ payment.status = "completed"
                                 /\ call'[p].amount <= payment.amount
             /\ (call[p].pc = "Create" /\ call'[p].res # "ok")
                  => payments' = payments]_vars

(* A refund of more than the amount of a completed payment has been
   refused. *)
RefundOverAmountRefused ==
    \E p \in Procs :
        /\ call[p].op = "ProcessRefund"
        /\ call[p].pc = "done"
        /\ call[p].res = "refund amount cannot exceed original payment amount"
        /\ payments[call[p].pid].status = "completed"

(* C13: a refund of a completed payment for at most its amount, served with
   no other request in progress, succeeds and
   adds one payment row with the negated amount, the method and the order of
   the original and the transaction id "REFUND-" + the original's; the
   original's amount stays. *)
RefundCreatesRecord ==
    [][\A p \in Procs :
          ( /\ call[p].op = "ProcessRefund"
            /\ call[p].pc = "Create"
            /\ call'[p].pc = "done"
            /\ \A q \in Procs \ {p} : call[q] = Idle )
          => /\ call'[p].res = "ok"
             /\ Len(payments') = Len(payments) + 1
             /\ payments'[Len(payments')].amount = 0 - call[p].amount
             /\ payments'[Len(payments')].method = call[p].payment.method
             /\ payments'[Len(payments')].orderID = call[p].payment.orderID
             /\ payments'[Len(payments')].txn = "REFUND-" \o call[p].payment.txn
             /\ payments'[call[p].pid].amount = payments[call[p].pid].amount]_vars

(* C14: a refund of a completed payment for at most its amount, served with
   no other request in progress, adds the
   negative record and leaves the original refunded when the amount is the
   payment's whole amount, and completed when it is less. *)
RefundMarksOriginal ==
    [][\A p \in Procs :
          ( /\ call[p].op = "ProcessRefund"
            /\ call[p].pc = "Create"
            /\ call'[p].pc = "done"
            /\ payments[call[p].pid].status = "completed"
            /\ \A q \in Procs \ {p} : call[q] = Idle )
          => /\ Len(payments') = Len(payments) + 1
             /\ payments'[call[p].pid].status =
                   IF call[p].amount = call[p].payment.amount
                   THEN "refunded" ELSE "completed"]_vars

(* C15: a payment in a terminal status (completed, failed, refunded or
   cancelled) keeps its status, amount and external id in every step that is
   not a step of a refund. *)
PaymentTerminalImmutable ==
    [][\A i \in DOMAIN payments :
          ( /\ payments[i].status \in {"completed", "failed", "refunded", "cancelled"}
            /\ ~ \E p \in Procs :
                    /\ call[p].op \in {"RefundPayment", "ProcessRefund"}
                    /\ call'[p] # call[p] )
          => /\ payments'[i].status = payments[i].status
             /\ payments'[i].amount = payments[i].amount
             /\ payments'[i].ext = payments[i].ext]_vars

---------------------------------------------------------------------------
(* C16: the prices of an order's lines are frozen when the lines are
   written: a step that changes the catalog (a new price, an item taken off
   the menu) changes no existing order, neither its lines' unit prices and
   line totals nor its subtotal, tax and total. *)
PricesFrozen ==
    [][menu' # menu => orders' = orders]_vars

(* The price of item 1 has been changed and an existing order still holds a
   line of item 1 at the old price. *)
OrderKeepsOldPrice ==
    \E p \in Procs, o \in DOMAIN orders :
        /\ call[p].op = "UpdateMenuItem"
        /\ call[p].pc = "done"
        /\ call[p].res = "ok"
        /\ \E i \in DOMAIN orders[o].items :
              /\ orders[o].items[i].menuItemID = 1
              /\ orders[o].items[i].unitPrice # menu[1].price

(* C17: CreateOrder fails when a requested menu item id is not in the
   catalog or the item is marked unavailable ("some menu items are not
   available"), and when the catalog lookup itself fails ("failed to fetch
   menu items"); in each of these cases the orders table, lines included, is
   left as it was. *)
CreateRejectsUnavailable ==
    [][\A p \in Procs :
          ( /\ call[p].pc # "done"
            /\ call'[p].pc = "done"
            /\ call'[p].op = "CreateOrder" )
          => LET items == call'[p].items
                 res   == call'[p].res
                 unavailable ==
                     \E i \in DOMAIN items :
                        \/ items[i].menuItemID \notin MenuIDs
                        \/ ~menu[items[i].menuItemID].available
             IN  /\ unavailable =>
                       /\ res \in {"some menu items are not available",
                                   "failed to fetch menu items"}
                       /\ orders' = orders
                 /\ res = "failed to fetch menu items" => orders' = orders
                 /\ res = "ok" => ~unavailable
    ]_vars

(* A CreateOrder naming an item that is in the catalog but was taken off the
   menu has been refused. *)
CreateRefusedUnavailable ==
    \E p \in Procs :
        /\ call[p].op = "CreateOrder"
        /\ call[p].pc = "done"
        /\ call[p].res = "some menu items are not available"
        /\ \A i \in DOMAIN call[p].items : call[p].items[i].menuItemID \in MenuIDs
        /\ \E i \in DOMAIN call[p].items : ~menu[call[p].items[i].menuItemID].available
        /\ orders = << >>

(* C18: the creation of an order persists the order row and all of its
   lines, or nothing: a finished CreateOrder or CreateCashierOrder either
   added one order holding a line for every requested item, or left the
   orders table as it was. *)
CreationAtomic ==
    [][\A p \in Procs :
          ( /\ call[p].pc # "done"
            /\ call'[p].pc = "done"
            /\ call'[p].op \in {"CreateOrder", "CreateCashierOrder"} )
          => \/ orders' = orders
             \/ /\ call'[p].res = "ok"
                /\ Len(orders') = Len(orders) + 1
                /\ SubSeq(orders', 1, Len(orders)) = orders
                /\ Len(orders'[Len(orders')].items) = Len(call'[p].items)
    ]_vars

(* C19: UpdateOrderItems on an order whose status is not pending is refused
   with "can only update items for pending orders", and the order's lines,
   subtotal, tax and total stay as they were; only a call that found the
   order pending goes on to replace its lines. *)
UpdateOrderItemsOnlyPending ==
    [][\A p \in Procs :
          ( /\ call[p] = Idle
            /\ call'[p].op = "UpdateOrderItems"
            /\ OrderFound(call'[p].oid) )
          => IF orders[call'[p].oid].status # OrderStatusPending
             THEN /\ call'[p].pc = "done"
                  /\ call'[p].res = "can only update items for pending orders"
                  /\ orders' = orders
             ELSE /\ call'[p].pc = "UpdateOrderItems"
                  /\ orders' = orders
    ]_vars

(* An UpdateOrderItems on an order that is no longer pending has been
   refused, and the order still holds the lines it was created with. *)
UpdateOrderItemsRefused ==
    \E p \in Procs :
        /\ call[p].op = "UpdateOrderItems"
        /\ call[p].pc = "done"
        /\ call[p].res = "can only update items for pending orders"
        /\ OrderFound(call[p].oid)
        /\ orders[call[p].oid].status # OrderStatusPending
        /\ orders[call[p].oid].items # << >>

(* C20: in every reachable state every line of every order has a quantity
   of at least 1, and every order's subtotal, tax and total are
   non-negative, whether the lines were written by the creation of the order
   or by UpdateOrderItems. *)
QuantitiesPositive ==
    \A o \in DOMAIN orders :
        /\ \A i \in DOMAIN orders[o].items : orders[o].items[i].quantity >= 1
        /\ orders[o].subtotal >= 0
        /\ orders[o].vat >= 0
        /\ orders[o].total >= 0

---------------------------------------------------------------------------
(* C21: InitiateQRISPayment on an order whose status is not pending fails
   with "order is not pending payment", and on an order whose existing
   payment is completed with "order already paid"; in both cases no payment
   row is created. *)
InitiateRefusesPaidOrNotPending ==
    [][\A p \in Procs :
          /\ ( /\ call[p] = Idle
               /\ call'[p].op = "InitiateQRISPayment"
               /\ OrderFound(call'[p].oid)
               /\ orders[call'[p].oid].status # OrderStatusPending )
             => /\ call'[p].pc = "done"
                /\ call'[p].res = "order is not pending payment"
                /\ payments' = payments
          /\ ( /\ call[p].op = "InitiateQRISPayment"
               /\ call[p].pc = "GetByOrderID"
               /\ call'[p] # call[p]
               /\ \E i \in DOMAIN payments :
                     /\ payments[i].orderID = call[p].oid
                     /\ payments[i].status = PaymentStatusCompleted )
             => /\ call'[p].pc = "done"
                /\ call'[p].res = "order already paid"
                /\ payments' = payments
          /\ ( /\ call[p].op = "InitiateQRISPayment"
               /\ call'[p].op = "InitiateQRISPayment"
               /\ call'[p].res \in {"order is not pending payment", "order already paid"} )
             => payments' = payments
    ]_vars

(* An InitiateQRISPayment on a pending order whose payment is completed has
   been refused as already paid. *)
InitiateRefusedAlreadyPaid ==
    \E p \in Procs :
        /\ call[p].op = "InitiateQRISPayment"
        /\ call[p].pc = "done"
        /\ call[p].res = "order already paid"
        /\ \E i \in DOMAIN payments :
              /\ payments[i].orderID = call[p].oid
              /\ payments[i].status = PaymentStatusCompleted
        /\ Len(payments) = 1

(* C22: a successful InitiateQRISPayment adds one payment row for the order,
   of method qris, in status pending, whose amount is the order's total at
   that moment, and writes nothing to the order, which is still pending;
   "at that moment" is taken as: no other request has changed the order row
   since the handler read it. *)
InitiateCreatesPendingPayment ==
    [][\A p \in Procs :
          ( /\ call[p].op = "InitiateQRISPayment"
            /\ call'[p].pc = "done"
            /\ call'[p].res = "ok"
            /\ orders[call[p].oid] = call[p].order )
          => LET oid == call[p].oid
             IN  /\ payments' = Append(payments, payments'[Len(payments')])
                 /\ payments'[Len(payments')].orderID = oid
                 /\ payments'[Len(payments')].method = PaymentMethodQRIS
                 /\ payments'[Len(payments')].status = PaymentStatusPending
                 /\ payments'[Len(payments')].amount = orders[oid].total
                 /\ orders' = orders
                 /\ orders'[oid].status = OrderStatusPending
    ]_vars

(* An InitiateQRISPayment has succeeded on an order whose total differs from
   its subtotal: the pending payment carries the total and the order is
   still pending. *)
InitiateSucceeded ==
    \E p \in Procs :
        /\ call[p].op = "InitiateQRISPayment"
        /\ call[p].pc = "done"
        /\ call[p].res = "ok"
        /\ payments[call[p].pid].status = PaymentStatusPending
        /\ payments[call[p].pid].amount = orders[call[p].oid].total
        /\ orders[call[p].oid].total # orders[call[p].oid].subtotal
        /\ orders[call[p].oid].status = OrderStatusPending

(* C23: VerifyPayment fails with "payment not found" when no payment has
   the transaction id, with "amount mismatch" when the reported amount
   differs from the payment's amount, and with "invalid payment status" when
   the reported status is none of success, completed and failed; in each
   case no payment (status, external id) and no order is changed. *)
VerifyPaymentRejects ==
    [][\A p \in Procs :
          ( /\ call[p] = Idle
            /\ call'[p].op = "VerifyPayment" )
          => LET req == call'[p].req
                 pid == GetByTransactionID(req.txn)
                 rejected(err) ==
                     /\ call'[p].pc = "done"
                     /\ call'[p].res = err
                     /\ payments' = payments
                     /\ orders' = orders
             IN  IF pid = 0
                 THEN rejected("payment not found")
                 ELSE IF payments[pid].amount # req.amount
                 THEN rejected("amount mismatch")
                 ELSE IF req.status \notin {"success", "completed", "failed"}
                 THEN rejected("invalid payment status")
                 ELSE call'[p].pc = "Update"
    ]_vars

(* A VerifyPayment reporting an amount other than the pending payment's has
   been refused, and the payment is still pending with no external id. *)
VerifyPaymentRefusedAmount ==
    \E p \in Procs :
        /\ call[p].op = "VerifyPayment"
        /\ call[p].pc = "done"
        /\ call[p].res = "amount mismatch"
        /\ call[p].pid \in DOMAIN payments
        /\ payments[call[p].pid].amount # call[p].req.amount
        /\ payments[call[p].pid].status = PaymentStatusPending
        /\ payments[call[p].pid].ext = ""

---------------------------------------------------------------------------
(* C24: AddClient adds the connection to the clients and at once writes to
   it, as its first message, the snapshot of exactly the orders that are
   confirmed or preparing when it fetches them; no connection is in the
   clients, AddClient having returned, without having been sent the
   snapshot. *)
SubscribeSendsSnapshot ==
    [][\A h \in Handles :
          /\ (conns[h].pc = "AddClient" /\ conns'[h].pc = "WriteMessage")
             => conns'[h].data =
                   [NoMessage EXCEPT !.type = "initial_orders",
                                     !.orders = GetKitchenOrders]
          /\ ( /\ conns[h].pc \in {"AddClient", "WriteMessage"}
               /\ conns'[h].pc = "open"
               /\ h \in clients' )
             => /\ conns[h].pc = "WriteMessage"
                /\ conns'[h].inbox = << conns[h].data >>
          /\ (conns[h].inbox = << >> /\ conns'[h].inbox # << >>)
             => conns'[h].inbox[1].type = "initial_orders"
    ]_vars

(* C25: a pass of handleMessages writes the message to every connection
   that is among the clients; a connection whose write fails is deleted
   within the pass; when the pass ends every connection still among the
   clients has received the message. *)
BroadcastReachesAll ==
    [][dispatch.pc = "range" =>
          /\ clients' \subseteq clients
          /\ \A h \in clients :
                conns'[h].inbox # conns[h].inbox
                => /\ conns'[h].inbox = Append(conns[h].inbox, dispatch.message)
                   /\ h \in clients'
          /\ dispatch'.pc = "recv"
             => \A h \in clients' :
                   /\ conns'[h].inbox # << >>
                   /\ conns'[h].inbox[Len(conns'[h].inbox)] = dispatch.message
    ]_vars

(* A pass has ended in which one connection received the update and the
   other, whose write failed, was deleted from the clients. *)
BroadcastRemovedFailed ==
    \E h1, h2 \in Handles :
        /\ dispatch.pc = "recv"
        /\ h1 \in clients
        /\ conns[h1].inbox # << >>
        /\ conns[h1].inbox[Len(conns[h1].inbox)].type = "status_update"
        /\ h2 \notin clients
        /\ conns[h2].pc = "open"
        /\ Len(conns[h2].inbox) = 1

(* C26: BroadcastOrderUpdate never makes its caller wait: whatever
   handleMessages and the connections are doing, the send step of the
   caller can be taken; when handleMessages is not in its receive the
   message is dropped, and the caller goes on and answers "ok" all the
   same. *)
BroadcastNeverBlocks ==
    \A p \in Procs :
        /\ (At(p, "BroadcastOrderUpdate", "Send")
            => ENABLED BroadcastOrderUpdate_Send(p))
        /\ (call[p].op = "BroadcastOrderUpdate" /\ call[p].pc = "done")
            => call[p].res = "ok"

(* A caller has passed its send while handleMessages was busy with an
   earlier message of another status: its own message was dropped. *)
BroadcastDropped ==
    \E p \in Procs :
        /\ call[p].op = "BroadcastOrderUpdate"
        /\ call[p].pc = "RLock"
        /\ call[p].order.status # ""
        /\ dispatch.pc # "recv"
        /\ dispatch.message.status # call[p].order.status

(* C27: the clients are guarded by the RWMutex: a connection is added or
   deleted only by a goroutine holding the write lock, hence while no
   goroutine holds the read lock; the loop of handleMessages runs with the
   read lock held. *)
ClientsGuardedByMutex ==
    [][/\ clients' # clients => (mutex.writer # 0 /\ mutex.readers = {})
       /\ dispatch.pc = "range" => (Dispatcher \in mutex.readers /\ mutex.writer = 0)
    ]_vars

(* C28: every successful status change made by UpdateOrderStatus is followed
   by the emission of a kitchen update carrying the order's id and its new
   status: the update is handed to handleMessages, or a BroadcastOrderUpdate
   for it has passed its send (handed over or dropped). *)
StatusChangeEmitsUpdate ==
    \A o \in OrderIDs, st \in OrderStatuses :
        (\E p \in Procs :
            /\ call[p].op = "UpdateOrderStatus"
            /\ call[p].pc = "done"
            /\ call[p].res = "ok"
            /\ call[p].rows = 1
            /\ call[p].oid = o
            /\ call[p].status = st)
        ~> (\/ dispatch.message =
                 [NoMessage EXCEPT !.type = "status_update", !.orderID = o,
                                   !.status = st]
            \/ \E q \in Procs :
                 /\ call[q].op = "BroadcastOrderUpdate"
                 /\ call[q].pc \in {"RLock", "RUnlock", "done"}
                 /\ call[q].oid = o
                 /\ call[q].order.status = st)

(* C29: once RemoveClient has returned, the connection is not among the
   clients, and no pass of handleMessages writes to it any more, also when
   RemoveClient was called while a pass was under way. *)
UnsubscribeRemoves ==
    [][\A h \in Handles :
          /\ conns'[h].pc = "closed" => h \notin clients'
          /\ conns[h].pc = "closed" => conns'[h].inbox = conns[h].inbox
    ]_vars

(* RemoveClient has returned for a connection that had been sent the
   snapshot, and a later pass of handleMessages is under way that has
   written to the other connection. *)
UnsubscribedBeforePass ==
    \E h, g \in Handles :
        /\ h # g
        /\ conns[h].pc = "closed"
        /\ Len(conns[h].inbox) >= 1
        /\ dispatch.pc = "range"
        /\ g \in dispatch.visited

---------------------------------------------------------------------------
(* The cash a cashier took in a shift: the sum of the amounts of the cash
   payments of non-negative amount on that cashier's orders within
   [shiftStart, shiftEnd]. *)
RECURSIVE CashTakenInShift(_, _, _, _)
CashTakenInShift(rows, cashierID, shiftStart, shiftEnd) ==
    IF rows = << >> THEN 0
    ELSE (IF /\ Head(rows).method = PaymentMethodCash
             /\ Head(rows).amount >= 0
             /\ Head(rows).cashier = cashierID
             /\ shiftStart <= Head(rows).createdAt
             /\ Head(rows).createdAt <= shiftEnd
          THEN Head(rows).amount ELSE 0)
         + CashTakenInShift(Tail(rows), cashierID, shiftStart, shiftEnd)

(* C30: ReconcileCashPayments computes calculatedTotal as the sum of the
   non-negative cash payments of the given cashier within the shift, and
   difference as the cash counted minus calculatedTotal; payments of another
   cashier, of another method, outside the shift or negative do not
   contribute. *)
ReconcileSumsCashiersPayments ==
    \A p \in Procs :
        (call[p].op = "ReconcileCashPayments" /\ call[p].pc = "done")
        => LET r == call[p].reconciliation
               total == CashTakenInShift(payments, r.cashierID, r.shiftStart, r.shiftEnd)
           IN  /\ call[p].res = "ok"
               /\ r.calculatedAmount = total
               /\ r.difference = r.actualAmount - total

---------------------------------------------------------------------------
(* C31: ReconcileCashPayments is bookkeeping only: a call of it, whether it
   returns a reconciliation or an error, leaves every row of the payments
   table and every row of the orders table as it was. *)
ReconcileMutatesNothing ==
    [][\A p \in Procs :
          (call[p] = Idle /\ call'[p].op = "ReconcileCashPayments")
          => (payments' = payments /\ orders' = orders)
    ]_vars

(* A reconciliation has returned for a shift in which a cash payment was
   taken, and the payment and its order are still in the tables. *)
ReconcileReturned ==
    \E p \in Procs :
        /\ call[p].op = "ReconcileCashPayments"
        /\ call[p].pc = "done"
        /\ orders # << >>
        /\ \E i \in DOMAIN payments :
              /\ payments[i].method = PaymentMethodCash
              /\ payments[i].amount > 0
              /\ call[p].reconciliation.shiftStart <= payments[i].createdAt
              /\ payments[i].createdAt <= call[p].reconciliation.shiftEnd

(* C32: through PATCH /admin/orders/{id}/status every documented status is
   accepted as a target and the documented transitions can be performed: a
   call naming an order that exists and a listed successor of its status, a
   ready order and served among them, is not refused; unless the UPDATE
   fails it answers ok and the order holds the target. *)
AdminPerformsDocumentedTransitions ==
    [][\A p \in Procs :
          ( /\ call[p] = Idle
            /\ call'[p].op = "UpdateOrderStatusAdmin"
            /\ OrderFound(call'[p].oid)
            /\ call'[p].status \in SpecSuccessors(orders[call'[p].oid].status) )
          => /\ call'[p].res \in {"ok", "db error"}
             /\ call'[p].res = "ok"
                  => orders'[call'[p].oid].status = call'[p].status
    ]_vars

(* C33: InitiateQRISPayment on a pending order that already has a payment
   which is not completed goes through: with the database at hand, its
   INSERT creates one more payment row for the order, pending, and the call
   answers ok; only a completed payment stands in its way. *)
InitiateAgainCreatesPayment ==
    [][\A p \in Procs :
          ( /\ call[p].op = "InitiateQRISPayment"
            /\ call[p].pc = "Create"
            /\ call'[p].pc = "done"
            /\ orders[call[p].oid].status = OrderStatusPending
            /\ GetByOrderID(call[p].oid) # 0
            /\ payments[GetByOrderID(call[p].oid)].status # PaymentStatusCompleted )
          => /\ call'[p].res = "ok"
             /\ Len(payments') = Len(payments) + 1
             /\ payments'[Len(payments')].orderID = call[p].oid
             /\ payments'[Len(payments')].status = PaymentStatusPending
    ]_vars

(* C34: whenever a payment is completed and its order is confirmed by it
   (the last step of VerifyPayment or of ProcessCashPayment), the amount of
   the payment equals the total of the order at that moment, also when
   UpdateOrderItems changed the pending order after the payment was
   initiated. *)
CompletedPaymentCoversTotal ==
    [][\A p \in Procs :
          ( /\ call[p].op \in {"VerifyPayment", "ProcessCashPayment"}
            /\ call[p].pc = "UpdateStatus"
            /\ call'[p].pc = "done"
            /\ call'[p].res = "ok"
            /\ call'[p].rows = 1
            /\ payments'[call[p].pid].status = PaymentStatusCompleted
            /\ orders'[call[p].oid].status = OrderStatusConfirmed )
          => payments'[call[p].pid].amount = orders'[call[p].oid].total
    ]_vars

(* The net amount collected for an order: the sum of the amounts of all its
   payment records, refund records (negative) included. *)
RECURSIVE NetCollected(_, _)
NetCollected(rows, orderID) ==
    IF rows = << >> THEN 0
    ELSE (IF Head(rows).orderID = orderID THEN Head(rows).amount ELSE 0)
         + NetCollected(Tail(rows), orderID)

(* C35: for every order, whatever refunds were made, the net amount
   collected is never negative: what was refunded against a payment never
   exceeds the amount of that payment, also over several partial refunds. *)
NetCollectedNonNegative ==
    \A o \in DOMAIN orders : NetCollected(payments, o) >= 0

(* C36: UpdateOrderItems changes the lines and the amounts of an order and
   never its status: no step of it changes the status the order row holds,
   so a status change committed by another request between its read of the
   order and its last write is still in place after it. *)
UpdateOrderItemsKeepsStatus ==
    [][\A p \in Procs :
          ( /\ call[p].op = "UpdateOrderItems"
            /\ call[p].pc \in {"UpdateOrderItems", "UpdateOrder"}
            /\ call'[p] # call[p] )
          => orders'[call[p].oid].status = orders[call[p].oid].status
    ]_vars

(* C39: no order holds a line whose catalog item was unavailable when the
   line was written: UpdateOrderItems, like CreateOrder, refuses a request
   with a line for an unavailable catalog item, so a request it goes on to
   write names available items only. *)
UpdateOrderItemsRejectsUnavailable ==
    [][\A p \in Procs :
          ( /\ call[p] = Idle
            /\ call'[p].op = "UpdateOrderItems"
            /\ call'[p].pc = "UpdateOrderItems" )
          => \A i \in DOMAIN call'[p].items :
                menu[call'[p].items[i].menuItemID].available
    ]_vars

(* C40: CreateOrder answers "some menu items are not available" only when a
   requested item id is missing from the catalog or unavailable: with the
   database at hand, a request whose every item id is in the catalog and
   available succeeds and adds the order, also when an item id is on more
   than one line. *)
CreateAcceptsAvailable ==
    [][\A p \in Procs :
          ( /\ call[p].pc # "done"
            /\ call'[p].pc = "done"
            /\ call'[p].op = "CreateOrder"
            /\ \A i \in DOMAIN call'[p].items :
                  /\ call'[p].items[i].menuItemID \in MenuIDs
                  /\ menu[call'[p].items[i].menuItemID].available )
          => /\ call'[p].res = "ok"
             /\ Len(orders') = Len(orders) + 1
             /\ Len(orders'[Len(orders')].items) = Len(call'[p].items)
    ]_vars

(* C37: a connection never receives a broadcast event before its snapshot:
   from the moment AddClient has added the connection until it has written
   the snapshot, no pass of handleMessages writes to the connection, and no
   event is written to a connection that has not been sent the snapshot. *)
SnapshotBeforeEvents ==
    [][\A h \in Handles :
          /\ conns[h].pc = "WriteMessage"
             => \/ conns'[h].inbox = conns[h].inbox
                \/ /\ conns'[h].pc = "open"
                   /\ conns'[h].inbox = << conns[h].data >>
          /\ ( /\ conns'[h].inbox # conns[h].inbox
               /\ conns'[h].inbox[Len(conns'[h].inbox)].type # "initial_orders" )
             => /\ conns[h].inbox # << >>
                /\ conns[h].inbox[1].type = "initial_orders"
    ]_vars

(* handleMessages is at a write to connection h: inside its loop, with h
   among the clients and not yet visited. *)
DispatcherWritesTo(h) ==
    /\ dispatch.pc = "range"
    /\ h \in clients \ dispatch.visited

(* C38: no two goroutines write to one connection at a time: AddClient is
   never at its write of the snapshot to a connection while handleMessages
   is at a write to it; and no write is made, by either, to a connection
   that was closed by RemoveClient or after a failed write. *)
ConnectionWritesExclusive ==
    [][\A h \in Handles :
          /\ ~(conns'[h].pc = "WriteMessage" /\ DispatcherWritesTo(h)')
          /\ (conns[h].pc = "WriteMessage" /\ conns'[h].pc # "WriteMessage")
             => ~conns[h].closed
          /\ (DispatcherWritesTo(h) /\ (h \in dispatch'.visited \/ h \notin clients'))
             => ~conns[h].closed
          /\ conns'[h].inbox # conns[h].inbox => ~conns[h].closed
    ]_vars

(* AddClient holds the write lock and is at its write of the snapshot to a
   connection it has added, while handleMessages, with an event received,
   waits for the read lock; the other connection was closed before. *)
SnapshotWriteHoldsOffPass ==
    \E h, g \in Handles :
        /\ h # g
        /\ conns[g].pc = "WriteMessage"
        /\ g \in clients
        /\ mutex.writer = g
        /\ dispatch.pc = "RLock"
        /\ dispatch.message.type = "status_update"
        /\ conns[h].closed
====
